---- MODULE Spec2Model ----
(***************************************************************************)
(* Scraper execution engine: SyncDriver and AsyncDriver.                   *)
(*                                                                         *)
(* One run of a driver over a scraper whose continuations are generators.  *)
(* The scraper, the interceptors, the transport and the user callbacks are *)
(* the environment: what they yield, return or raise is chosen with \E.    *)
(* The interceptors and the callbacks themselves return and do not raise.  *)
(* Variables marked "ghost" record what was called; the drivers never read *)
(* them.  A worker has a position of its own after resolve_request has     *)
(* returned or raised and after an error callback has answered, so that    *)
(* the record of the request it holds can be inspected before it is        *)
(* dropped at the next step.                                               *)
(***************************************************************************)
EXTENDS Integers, Sequences, FiniteSets, TLC

\* ---------------------------------------------------------------- bounds
MaxReq == 3            \* requests a scraper creates in one run (entry included)
MaxYields == 2         \* items one continuation invocation yields
MaxWorkers == 2        \* num_workers of the AsyncDriver
NumInterceptors == 2   \* length of the interceptors list

\* ------------------------------------------------------- program constants
DefaultPriority == 9
ArchivePriority == 1
ServerErrorStatus == 500

Workers == 1..MaxWorkers
Priorities == {ArchivePriority, DefaultPriority}
Statuses == {200, 429, 500}
NoExc == "None"
ContinuationExceptions ==
    {"HTMLStructuralAssumptionException", "HTMLResponseAssumptionException",
     "ScraperAssumptionException", "DataFormatAssumptionException",
     "ValueError", "KeyboardInterrupt"}

\* self.interceptors, in list order.
interceptors == [i \in 1..NumInterceptors |-> i]

VARIABLES
    cfg,                \* constructor arguments of the driver
    stop_event,         \* stop_event.is_set()
    request_queue,      \* set of entries (priority, counter, request)
    queue_counter,      \* self._queue_counter
    unfinished_tasks,   \* asyncio.Queue bookkeeping behind join()/task_done()
    created,            \* number of request objects the scraper has built
    rpc,                \* position of run()
    status,             \* local variable status of run()
    error,              \* local variable error of run()
    wpc,                \* position of each worker (sync: worker 1 is the loop)
    wreq,               \* request the worker holds
    widx,               \* position in the interceptor list being walked
    wyield,             \* items the running continuation has yielded
    wcancel,            \* task.cancel() was called on the worker
    wexc,               \* exception raised in the worker
    request_count,      \* LoggingInterceptor.request_count per interceptor
    response_count,     \* LoggingInterceptor.response_count per interceptor
    chain,              \* ghost: interceptor and transport calls for wreq
    job,                \* ghost: what the driver did with wreq
    failed,             \* ghost: some resolve_request call did not return
    run_start_calls,    \* ghost: calls of on_run_start
    run_complete_calls, \* ghost: calls of on_run_complete
    complete_args,      \* ghost: (status, error) given to on_run_complete
    data_call,          \* handle_data: the callbacks set and the calls made
    dedup,              \* two requests being constructed and their keys
    tree,               \* one request chain: requests, responses, queue
    objects,            \* the mappings requests are constructed from
    lock,               \* workers inside enqueue_request and the queue lock
    warc,               \* a WARC file being recorded and replayed
    limiter,            \* a RateLimitInterceptor and the calls made on it
    resolution          \* a yielded request and the request resolve_from made of it

\* The state of a running driver.
drivervars == <<cfg, stop_event, request_queue, queue_counter, unfinished_tasks,
                created, rpc, status, error, wpc, wreq, widx, wyield, wcancel,
                wexc, request_count, response_count, chain, job, failed,
                run_start_calls, run_complete_calls, complete_args>>

\* The values the data model is exercised on, apart from a running driver.
calcvars == <<data_call, dedup, tree, objects, lock, warc, limiter, resolution>>

vars == <<drivervars, calcvars>>

\* A variable a specification does not use.
Idle == [pc |-> "idle"]

\* ------------------------------------------------------ exception classes
\* isinstance(exc, cls) for the exception classes the drivers catch.
IsInstance(exc, cls) ==
    CASE cls = "TransientException" -> exc = "RequestTimeoutException"
      [] cls = "ScraperAssumptionException" ->
            exc \in {"ScraperAssumptionException",
                     "HTMLStructuralAssumptionException",
                     "HTMLResponseAssumptionException",
                     "DataFormatAssumptionException"}
      [] OTHER -> exc = cls

\* The class named in the except clause around the continuation iteration.
StructuralCatchClass(driver) ==
    IF driver = "sync" THEN "ScraperAssumptionException"
    ELSE "HTMLStructuralAssumptionException"

\* ------------------------------------------------------------- the queue
\* A heap entry with its two keys exchanged: the counter compared first.
QueueEntryCounterFirst(priority, counter, request) ==
    [priority |-> counter, counter |-> priority, request |-> request]

\* The tuple pushed on the heap for a request.
QueueEntry(priority, counter, request) ==
    [priority |-> priority, counter |-> counter, request |-> request]

\* Tuple comparison of heap entries: priority first, then counter.
EntryLess(a, b) ==
    \/ a.priority < b.priority
    \/ a.priority = b.priority /\ a.counter < b.counter

\* The largest entry taken instead.
HeapMax(q) == CHOOSE e \in q : \A f \in q \ {e} : EntryLess(f, e)

\* heapq.heappop / PriorityQueue.get: the smallest entry.
HeapMin(q) == CHOOSE e \in q : \A f \in q \ {e} : EntryLess(e, f)

\* A request object: ids number the requests in the order they were handed
\* to enqueue_request (the entry request is 1).  Whether it is an ArchiveRequest is read only when it is fetched,
\* and is chosen there.
\* parent is the id of the request whose continuation yielded it (ghost; 0
\* for the entry): of two requests with the same parent the one with the
\* lower id was yielded first.
Request(id, priority, parent) ==
    [id |-> id, priority |-> priority, parent |-> parent]
NoRequest == Request(0, DefaultPriority, 0)

\* What is recorded about the request a worker holds.
NoJob == [result |-> "none",          \* of resolve_request: returned, raised
          status_code |-> 0,          \* status the transport answered with
          raised |-> NoExc,           \* exception raised while processing
          raised_in |-> "none",       \* iteration: continuation, validation
          handler |-> "none",         \* callback the exception was given to
          handler_arg |-> NoExc,
          handler_calls |-> 0,
          handler_result |-> "none",
          continuation_calls |-> 0]

Configs ==
    [driver : {"sync", "async"},
     num_workers : Workers,
     on_transient_exception : BOOLEAN,
     on_structural_error : BOOLEAN]

\* State after __init__; run() has not been called yet.
DriverInit ==
    /\ cfg \in {c \in Configs : c.driver = "sync" => c.num_workers = 1}
    /\ stop_event = FALSE
    /\ request_queue = {}
    /\ queue_counter = 0
    /\ unfinished_tasks = 0
    /\ created = 0
    /\ rpc = "start"
    /\ status = "completed"
    /\ error = NoExc
    /\ wpc = [w \in Workers |-> "off"]
    /\ wreq = [w \in Workers |-> NoRequest]
    /\ widx = [w \in Workers |-> 0]
    /\ wyield = [w \in Workers |-> 0]
    /\ wcancel = [w \in Workers |-> FALSE]
    /\ wexc = [w \in Workers |-> NoExc]
    /\ request_count = [i \in 1..NumInterceptors |-> 0]
    /\ response_count = [i \in 1..NumInterceptors |-> 0]
    /\ chain = [w \in Workers |-> << >>]
    /\ job = [w \in Workers |-> NoJob]
    /\ failed = FALSE
    /\ run_start_calls = 0
    /\ run_complete_calls = 0
    /\ complete_args = <<"none", NoExc>>

Init ==
    /\ DriverInit
    /\ data_call = Idle
    /\ dedup = Idle
    /\ tree = Idle
    /\ objects = Idle
    /\ lock = Idle
    /\ warc = Idle
    /\ limiter = Idle
    /\ resolution = Idle

Async == cfg.driver = "async"
Log(w, op, i, ret) ==
    chain' = [chain EXCEPT ![w] = Append(@, [op |-> op, i |-> i, ret |-> ret])]

\* The worker lets go of the request it held.
Release(w) ==
    /\ wreq' = [wreq EXCEPT ![w] = NoRequest]
    /\ widx' = [widx EXCEPT ![w] = 0]
    /\ wyield' = [wyield EXCEPT ![w] = 0]
    /\ chain' = [chain EXCEPT ![w] = << >>]
    /\ job' = [job EXCEPT ![w] = NoJob]

\* The finally clause without the task_done() call.
TaskDoneMissing == unfinished_tasks' = unfinished_tasks

\* The finally clause of the AsyncDriver worker: request_queue.task_done().
TaskDone == unfinished_tasks' = IF Async THEN unfinished_tasks - 1 ELSE unfinished_tasks

\* ------------------------------------------------------------ scheduling
\* Positions at which a worker task is suspended in an await.  At the other
\* positions the task is running: asyncio runs no other task, and not run()
\* either, until it suspends.
Suspended == {"loop", "get", "modify_request", "send", "modify_response",
              "on_archive", "continuation"}
Finished == {"off", "done", "failed"}
NoneRunning == \A v \in Workers : wpc[v] \in Suspended \cup Finished
MayRun(w) == \A v \in Workers \ {w} : wpc[v] \in Suspended \cup Finished

\* Workers that hold no request are interchangeable (worker_id is unused):
\* of several at the same position the lowest takes the step.
FirstIdle(w) == \A v \in Workers : v < w => wpc[v] # wpc[w] \/ wcancel[v] # wcancel[w]

\* ------------------------------------------------- how a loop body ends
\* `continue`, or the end of the loop body: back to the top of the loop.
EndOfBody(w) ==
    /\ wpc' = [wpc EXCEPT ![w] = "loop"]
    /\ TaskDone
    /\ Release(w)
    /\ UNCHANGED <<rpc, status, error, wexc>>

\* A callback answered False: `return` out of run() (sync), `break` out of
\* the worker loop (async).
WorkerReturn(w) ==
    /\ wpc' = [wpc EXCEPT ![w] = "done"]
    /\ rpc' = IF Async THEN rpc ELSE "finally"
    /\ TaskDone
    /\ Release(w)
    /\ UNCHANGED <<status, error, wexc>>

\* `except Exception as e` in run(): KeyboardInterrupt is a BaseException
\* that is not an Exception.
IsException(exc) == exc # "KeyboardInterrupt"

\* An exception leaves the loop body: run() records it when its except
\* clause catches it (sync), the worker task ends with it (async).
Propagate(w) ==
    /\ wpc' = [wpc EXCEPT ![w] = "failed"]
    /\ TaskDone
    /\ Release(w)
    /\ IF Async
       THEN UNCHANGED <<rpc, status, error>>
       ELSE /\ status' = IF IsException(wexc[w]) THEN "error" ELSE status
            /\ error' = IF IsException(wexc[w]) THEN wexc[w] ELSE error
            /\ rpc' = "finally"
    /\ UNCHANGED wexc

\* The callback's answer ignored: the worker always goes on.
AfterHandlerAlwaysContinue(w, should_continue) == EndOfBody(w)

\* The callback's answer ignored: the worker always stops.
AfterHandlerAlwaysStop(w, should_continue) == WorkerReturn(w)

\* What the worker does once an error callback has answered.
AfterHandler(w, should_continue) ==
    IF should_continue THEN EndOfBody(w) ELSE WorkerReturn(w)

\* ------------------------------------------------------------------ run()
\* on_run_start(scraper_name)
RunStart ==
    /\ rpc = "start"
    /\ run_start_calls' = run_start_calls + 1
    /\ rpc' = "entry"
    /\ UNCHANGED <<calcvars, cfg, stop_event, request_queue, queue_counter,
                   unfinished_tasks, created, status, error, wpc,
                   wreq, widx, wyield, wcancel, wexc, request_count,
                   response_count, chain, job, failed,
                   run_complete_calls, complete_args>>

\* AsyncDriver.run: stop_event already set, return before any work.
EarlyStop ==
    /\ rpc = "entry"
    /\ Async
    /\ stop_event
    /\ rpc' = "finally"
    /\ UNCHANGED <<calcvars, cfg, stop_event, request_queue, queue_counter,
                   unfinished_tasks, created, status, error, wpc,
                   wreq, widx, wyield, wcancel, wexc, request_count,
                   response_count, chain, job, failed,
                   run_start_calls, run_complete_calls, complete_args>>

\* scraper.get_entry() raises.
EntryRaises ==
    /\ rpc = "entry"
    /\ Async => ~stop_event
    /\ status' = "error"
    /\ error' = "ValueError"
    /\ rpc' = "finally"
    /\ UNCHANGED <<calcvars, cfg, stop_event, request_queue, queue_counter,
                   unfinished_tasks, created, wpc,
                   wreq, widx, wyield, wcancel, wexc, request_count,
                   response_count, chain, job, failed,
                   run_start_calls, run_complete_calls, complete_args>>

\* scraper.get_entry(), push the entry request, start the loop / the workers.
PushEntry ==
    /\ rpc = "entry"
    /\ Async => ~stop_event
    /\ \E priority \in Priorities :
          request_queue' =
              {QueueEntry(priority, IF Async THEN 0 ELSE queue_counter,
                          Request(1, priority, 0))}
    /\ created' = 1
    /\ queue_counter' = (IF Async THEN 0 ELSE queue_counter) + 1
    /\ unfinished_tasks' = IF Async THEN 1 ELSE 0
    /\ wpc' = [w \in Workers |-> IF w <= cfg.num_workers THEN "loop" ELSE "off"]
    /\ rpc' = IF Async THEN "join" ELSE "loop"
    /\ UNCHANGED <<calcvars, cfg, stop_event, status, error, wreq, widx, wyield,
                   wcancel, wexc, request_count, response_count, chain, job,
                   failed, run_start_calls, run_complete_calls,
                   complete_args>>

\* on_run_complete(scraper_name, status, error) in the finally clause.
RunComplete ==
    /\ rpc = "finally"
    /\ run_complete_calls' = run_complete_calls + 1
    /\ complete_args' = <<status, error>>
    /\ rpc' = "done"
    /\ UNCHANGED <<calcvars, cfg, stop_event, request_queue, queue_counter,
                   unfinished_tasks, created, status, error, wpc,
                   wreq, widx, wyield, wcancel, wexc, request_count,
                   response_count, chain, job, failed,
                   run_start_calls>>

\* Somebody sets the stop event.
SetStop ==
    /\ ~stop_event
    /\ rpc # "done"
    /\ Async => NoneRunning
    /\ stop_event' = TRUE
    /\ UNCHANGED <<calcvars, cfg, request_queue, queue_counter,
                   unfinished_tasks, created, rpc, status, error,
                   wpc, wreq, widx, wyield, wcancel, wexc, request_count,
                   response_count, chain, job, failed,
                   run_start_calls, run_complete_calls, complete_args>>

\* ------------------------------------------------------- the worker loop
\* The check at the top of the loop left out.
StopCheckNever == FALSE

\* `if self.stop_event and self.stop_event.is_set(): break` at the top of
\* the loop of SyncDriver.run and of AsyncDriver._worker.
StopCheck == stop_event

\* SyncDriver: `while self.request_queue:` finds the queue empty.
QueueExhausted ==
    /\ ~Async
    /\ wpc[1] = "loop"
    /\ request_queue = {}
    /\ wpc' = [wpc EXCEPT ![1] = "done"]
    /\ rpc' = "finally"
    /\ UNCHANGED <<calcvars, cfg, stop_event, request_queue, queue_counter,
                   unfinished_tasks, created, status, error,
                   wreq, widx, wyield, wcancel, wexc, request_count,
                   response_count, chain, job, failed,
                   run_start_calls, run_complete_calls, complete_args>>

\* The stop event is found set at the top of the loop: break.
WorkerStop(w) ==
    /\ wpc[w] = "loop"
    /\ ~wcancel[w]
    /\ MayRun(w) /\ FirstIdle(w)
    /\ StopCheck
    /\ Async \/ request_queue # {}
    /\ wpc' = [wpc EXCEPT ![w] = "done"]
    /\ rpc' = IF Async THEN rpc ELSE "finally"
    /\ UNCHANGED <<calcvars, cfg, stop_event, request_queue, queue_counter,
                   unfinished_tasks, created, status, error,
                   wreq, widx, wyield, wcancel, wexc, request_count,
                   response_count, chain, job, failed,
                   run_start_calls, run_complete_calls, complete_args>>

\* AsyncDriver: the queue is empty, the worker suspends in queue.get().
WorkerWait(w) ==
    /\ Async
    /\ wpc[w] = "loop"
    /\ ~wcancel[w]
    /\ MayRun(w) /\ FirstIdle(w)
    /\ ~StopCheck
    /\ request_queue = {}
    /\ wpc' = [wpc EXCEPT ![w] = "get"]
    /\ UNCHANGED <<calcvars, cfg, stop_event, request_queue, queue_counter,
                   unfinished_tasks, created, rpc, status, error,
                   wreq, widx, wyield, wcancel, wexc, request_count,
                   response_count, chain, job, failed,
                   run_start_calls, run_complete_calls, complete_args>>

\* The smallest entry read without being taken out.
HeapPeek(q, e) == q

\* heapq.heappop / PriorityQueue.get: the queue without the entry returned.
HeapPop(q, e) == q \ {e}

\* heappop / queue.get(): take the smallest entry and start resolving it.
WorkerPop(w) ==
    /\ \/ wpc[w] = "loop" /\ ~StopCheck
       \/ wpc[w] = "get"
    /\ ~wcancel[w]
    /\ MayRun(w) /\ FirstIdle(w)
    /\ request_queue # {}
    /\ LET e == HeapMin(request_queue) IN
          /\ request_queue' = HeapPop(request_queue, e)
          /\ wreq' = [wreq EXCEPT ![w] = e.request]
    /\ wpc' = [wpc EXCEPT ![w] = "modify_request"]
    /\ widx' = [widx EXCEPT ![w] = 1]
    /\ UNCHANGED <<calcvars, cfg, stop_event, queue_counter, unfinished_tasks,
                   created, rpc, status, error, wyield, wcancel, wexc,
                   request_count, response_count, chain, job, failed,
                   run_start_calls, run_complete_calls, complete_args>>

\* ------------------------------------------------------- resolve_request
\* The list walked in list order instead.
ReversedNot(s) == s

\* reversed(self.interceptors)
Reversed(s) == [p \in 1..Len(s) |-> s[Len(s) + 1 - p]]

\* A response returned by modify_request treated like a request.
AfterModifyRequestNoShortCircuit(idx, result) ==
    IF idx < Len(interceptors)
    THEN [pc |-> "modify_request", idx |-> idx + 1]
    ELSE [pc |-> "send", idx |-> 0]

\* A short-circuit response unwound only through the interceptors that saw
\* the request.
AfterModifyRequestUnwindSeen(idx, result) ==
    IF result = "Response"
    THEN [pc |-> "modify_response", idx |-> Len(interceptors) + 1 - idx]
    ELSE IF idx < Len(interceptors)
    THEN [pc |-> "modify_request", idx |-> idx + 1]
    ELSE [pc |-> "send", idx |-> 0]

\* Where resolve_request goes after interceptor number idx of the list has
\* answered modify_request with a request ("Request") or a response.
AfterModifyRequest(idx, result) ==
    IF result = "Response"
    THEN [pc |-> "modify_response", idx |-> 1]
    ELSE IF idx < Len(interceptors)
    THEN [pc |-> "modify_request", idx |-> idx + 1]
    ELSE [pc |-> "send", idx |-> 0]

\* interceptors[widx].modify_request(modified_request)
ModifyRequest(w) ==
    /\ wpc[w] = "modify_request"
    /\ ~wcancel[w]
    /\ MayRun(w)
    /\ request_count' = [request_count EXCEPT ![interceptors[widx[w]]] = @ + 1]
    /\ \E result \in {"Request", "Response"} :
          /\ Log(w, "modify_request", interceptors[widx[w]], result)
          /\ wpc' = [wpc EXCEPT ![w] = AfterModifyRequest(widx[w], result).pc]
          /\ widx' = [widx EXCEPT ![w] = AfterModifyRequest(widx[w], result).idx]
    /\ UNCHANGED <<calcvars, cfg, stop_event, request_queue, queue_counter,
                   unfinished_tasks, created, rpc, status, error,
                   wreq, wyield, wcancel, wexc, response_count, job,
                   failed, run_start_calls, run_complete_calls, complete_args>>

\* The status check left out.
IsServerErrorNever(code) == FALSE

\* The status check taking every client error as well.
IsServerErrorFrom400(code) == code >= 400

\* `if http_response.status_code >= 500: raise HTMLResponseAssumptionException`
IsServerError(code) == code >= ServerErrorStatus

\* self._client.request(...) answers with a status code.
Send(w) ==
    /\ wpc[w] = "send"
    /\ ~wcancel[w]
    /\ MayRun(w)
    /\ \E code \in Statuses :
          IF IsServerError(code)
          THEN /\ Log(w, "send", 0, "raise")
               /\ job' = [job EXCEPT ![w].status_code = code,
                                     ![w].result = "raised",
                                     ![w].raised = "HTMLResponseAssumptionException"]
               /\ wexc' = [wexc EXCEPT ![w] = "HTMLResponseAssumptionException"]
               /\ wpc' = [wpc EXCEPT ![w] = "resolve_raised"]
               /\ failed' = TRUE
               /\ UNCHANGED widx
          ELSE /\ Log(w, "send", 0, "Response")
               /\ job' = [job EXCEPT ![w].status_code = code]
               /\ wpc' = [wpc EXCEPT ![w] = "modify_response"]
               /\ widx' = [widx EXCEPT ![w] = 1]
               /\ UNCHANGED <<wexc, failed>>
    /\ UNCHANGED <<calcvars, cfg, stop_event, request_queue, queue_counter,
                   unfinished_tasks, created, rpc, status, error, wreq,
                   wyield, wcancel, request_count, response_count,
                   run_start_calls, run_complete_calls, complete_args>>

\* self._client.request(...) raises httpx.TimeoutException, which is
\* converted to RequestTimeoutException.
SendTimesOut(w) ==
    /\ wpc[w] = "send"
    /\ ~wcancel[w]
    /\ MayRun(w)
    /\ Log(w, "send", 0, "raise")
    /\ job' = [job EXCEPT ![w].result = "raised",
                          ![w].raised = "RequestTimeoutException"]
    /\ wexc' = [wexc EXCEPT ![w] = "RequestTimeoutException"]
    /\ wpc' = [wpc EXCEPT ![w] = "resolve_raised"]
    /\ failed' = TRUE
    /\ UNCHANGED <<calcvars, cfg, stop_event, request_queue, queue_counter,
                   unfinished_tasks, created, rpc, status, error, wreq,
                   widx, wyield, wcancel, request_count, response_count,
                   run_start_calls, run_complete_calls, complete_args>>

\* modify_response(response, request) of the interceptor at position widx of
\* reversed(self.interceptors); after the last one resolve_request returns.
ModifyResponse(w) ==
    /\ wpc[w] = "modify_response"
    /\ ~wcancel[w]
    /\ MayRun(w)
    /\ LET order == Reversed(interceptors) IN
          /\ response_count' = [response_count EXCEPT ![order[widx[w]]] = @ + 1]
          /\ Log(w, "modify_response", order[widx[w]], "Response")
          /\ IF widx[w] < Len(order)
             THEN /\ widx' = [widx EXCEPT ![w] = @ + 1]
                  /\ UNCHANGED <<wpc, job>>
             ELSE /\ wpc' = [wpc EXCEPT ![w] = "resolved"]
                  /\ job' = [job EXCEPT ![w].result = "returned"]
                  /\ widx' = [widx EXCEPT ![w] = 0]
    /\ UNCHANGED <<calcvars, cfg, stop_event, request_queue, queue_counter,
                   unfinished_tasks, created, rpc, status, error,
                   wreq, wyield, wcancel, wexc, request_count, failed,
                   run_start_calls, run_complete_calls, complete_args>>

\* resolve_request has returned: an archive request goes on to on_archive,
\* any other to the continuation, whose generator is created here.
Dispatch(w) ==
    /\ wpc[w] = "resolved"
    /\ chain' = [chain EXCEPT ![w] = << >>]
    /\ \E is_archive \in BOOLEAN :
          IF is_archive /\ wreq[w].id # 1
          THEN /\ wpc' = [wpc EXCEPT ![w] = "on_archive"]
               /\ job' = [job EXCEPT ![w] = [NoJob EXCEPT !.result = "returned"]]
          ELSE /\ wpc' = [wpc EXCEPT ![w] = "continuation"]
               /\ job' = [job EXCEPT ![w] = [NoJob EXCEPT !.result = "returned",
                                                 !.continuation_calls = 1]]
    /\ UNCHANGED <<calcvars, cfg, stop_event, request_queue, queue_counter,
                   unfinished_tasks, created, rpc, status, error,
                   wreq, widx, wyield, wcancel, wexc, request_count,
                   response_count, failed,
                   run_start_calls, run_complete_calls, complete_args>>

\* resolve_archive_request: self.on_archive(content, url, expected_type, dir)
OnArchive(w) ==
    /\ wpc[w] = "on_archive"
    /\ ~wcancel[w]
    /\ MayRun(w)
    /\ wpc' = [wpc EXCEPT ![w] = "continuation"]
    /\ job' = [job EXCEPT ![w].continuation_calls = @ + 1]
    /\ UNCHANGED <<calcvars, cfg, stop_event, request_queue, queue_counter,
                   unfinished_tasks, created, rpc, status, error,
                   wreq, widx, wyield, wcancel, wexc, request_count,
                   response_count, chain, failed,
                   run_start_calls, run_complete_calls, complete_args>>

\* The except clause around resolve_request / resolve_archive_request:
\* a TransientException goes to on_transient_exception when that is set,
\* anything else leaves the loop body.
HandleResolveError(w) ==
    /\ wpc[w] = "resolve_raised"
    /\ IF IsInstance(wexc[w], "TransientException") /\ cfg.on_transient_exception
       THEN /\ \E should_continue \in {"true", "false"} :
                  job' = [job EXCEPT ![w].handler = "on_transient_exception",
                                     ![w].handler_arg = wexc[w],
                                     ![w].handler_calls = @ + 1,
                                     ![w].handler_result = should_continue]
            /\ wpc' = [wpc EXCEPT ![w] = "handled"]
            /\ wexc' = [wexc EXCEPT ![w] = NoExc]
            /\ chain' = [chain EXCEPT ![w] = << >>]
            /\ UNCHANGED <<rpc, status, error, unfinished_tasks, wreq, widx,
                           wyield>>
       ELSE Propagate(w)
    /\ UNCHANGED <<calcvars, cfg, stop_event, request_queue, queue_counter,
                   created, wcancel, request_count,
                   response_count, failed,
                   run_start_calls, run_complete_calls, complete_args>>

\* =============================================================== handle_data
\* What a ParsedData carries: a plain value, or a DeferredValidation whose
\* confirm() returns the validated value or raises
\* DataFormatAssumptionException.
Payloads == {"a", "b"}
DataItems == [deferred : BOOLEAN, valid : BOOLEAN, raw : Payloads]
Validated(raw) == <<"validated", raw>>

\* What the on_data callback does when it is called.
OnDataOutcomes == {"returns", "DataFormatAssumptionException", "ValueError"}

\* handle_data(data): the calls it makes and the exception it leaves with.
\* In the deferred branch confirm() and the on_data call are both inside the
\* try block whose except clause catches DataFormatAssumptionException.
HandleData(data, on_data, on_invalid_data, on_data_does) ==
    LET confirm_raises == data.deferred /\ ~data.valid
        on_data_called == on_data /\ ~confirm_raises
        in_try == IF confirm_raises THEN "DataFormatAssumptionException"
                  ELSE IF on_data_called /\ on_data_does # "returns"
                  THEN on_data_does
                  ELSE NoExc
        caught == data.deferred /\ in_try = "DataFormatAssumptionException"
    IN  [confirm_calls |-> IF data.deferred THEN 1 ELSE 0,
         on_data_calls |-> IF on_data_called THEN 1 ELSE 0,
         on_data_arg |-> IF ~on_data_called THEN <<"none">>
                         ELSE IF data.deferred THEN Validated(data.raw)
                         ELSE <<"plain", data.raw>>,
         on_invalid_data_calls |-> IF caught /\ on_invalid_data THEN 1 ELSE 0,
         raised |-> IF caught
                    THEN (IF on_invalid_data THEN NoExc
                          ELSE "DataFormatAssumptionException")
                    ELSE in_try]

NoDataResult == HandleData([deferred |-> FALSE, valid |-> TRUE, raw |-> "a"],
                           FALSE, FALSE, "returns")

\* ------------------------------------------- iterating the continuation
\* enqueue_request(item, context): push (priority, counter, request) and
\* increment the counter, unless the key is a string and a configured
\* duplicate_check rejects it (enqueue = FALSE).
YieldRequest(w) ==
    /\ wpc[w] = "continuation"
    /\ ~wcancel[w]
    /\ MayRun(w)
    /\ wyield[w] < MaxYields
    /\ created < MaxReq
    /\ created' = created + 1
    /\ wyield' = [wyield EXCEPT ![w] = @ + 1]
    /\ \E priority \in Priorities, enqueue \in BOOLEAN :
          IF ~enqueue
          THEN UNCHANGED <<request_queue, queue_counter, unfinished_tasks>>
          ELSE /\ request_queue' = request_queue \cup
                     {QueueEntry(priority, queue_counter,
                                 Request(created + 1, priority,
                                         wreq[w].id))}
               /\ queue_counter' = queue_counter + 1
               /\ unfinished_tasks' =
                     IF Async THEN unfinished_tasks + 1 ELSE unfinished_tasks
    /\ UNCHANGED <<calcvars, cfg, stop_event, rpc, status, error, wpc, wreq, widx,
                   wcancel, wexc, request_count, response_count, chain, job,
                   failed, run_start_calls, run_complete_calls,
                   complete_args>>

\* ParsedData or None is yielded and handle_data returns: the data went to
\* on_data or to on_invalid_data.
YieldData(w) ==
    /\ wpc[w] = "continuation"
    /\ ~wcancel[w]
    /\ MayRun(w)
    /\ wyield[w] < MaxYields
    /\ wyield' = [wyield EXCEPT ![w] = @ + 1]
    /\ UNCHANGED <<calcvars, cfg, stop_event, request_queue, queue_counter,
                   unfinished_tasks, created, rpc, status, error,
                   wpc, wreq, widx, wcancel, wexc, request_count,
                   response_count, chain, job, failed,
                   run_start_calls, run_complete_calls, complete_args>>

\* handle_data re-raises for a deferred value that fails validation while
\* on_invalid_data is not set.
ValidationFailure(e) ==
    \E data \in DataItems, on_data \in BOOLEAN :
        /\ data.deferred /\ ~data.valid
        /\ HandleData(data, on_data, FALSE, "returns").raised = e

\* The iteration raises: the continuation itself, the injector that parses
\* the response for it or a callback ("continuation"), or handle_data
\* re-raising the DataFormatAssumptionException of a failed validation when
\* on_invalid_data is not set ("validation").
\* A KeyboardInterrupt (the user interrupts the process while the
\* continuation runs) is followed in the SyncDriver only: in a task of the
\* AsyncDriver it ends the event loop.
ContinuationRaises(w) ==
    /\ wpc[w] = "continuation"
    /\ ~wcancel[w]
    /\ MayRun(w)
    /\ \E e \in ContinuationExceptions, raised_in \in {"continuation", "validation"} :
          /\ raised_in = "validation" => ValidationFailure(e)
          /\ ~IsException(e) => ~Async
          /\ wexc' = [wexc EXCEPT ![w] = e]
          /\ job' = [job EXCEPT ![w].raised = e, ![w].raised_in = raised_in]
    /\ wpc' = [wpc EXCEPT ![w] = "continuation_raised"]
    /\ UNCHANGED <<calcvars, cfg, stop_event, request_queue, queue_counter,
                   unfinished_tasks, created, rpc, status, error,
                   wreq, widx, wyield, wcancel, request_count,
                   response_count, chain, failed,
                   run_start_calls, run_complete_calls, complete_args>>

\* The except clause around the iteration: an exception of the class it
\* names goes to on_structural_error when that is set, anything else leaves
\* the loop body.
HandleContinuationError(w) ==
    /\ wpc[w] = "continuation_raised"
    /\ IF IsInstance(wexc[w], StructuralCatchClass(cfg.driver))
          /\ cfg.on_structural_error
       THEN /\ \E should_continue \in {"true", "false"} :
                  job' = [job EXCEPT ![w].handler = "on_structural_error",
                                     ![w].handler_arg = wexc[w],
                                     ![w].handler_calls = @ + 1,
                                     ![w].handler_result = should_continue]
            /\ wpc' = [wpc EXCEPT ![w] = "handled"]
            /\ wexc' = [wexc EXCEPT ![w] = NoExc]
            /\ UNCHANGED <<rpc, status, error, unfinished_tasks, wreq, widx,
                           wyield, chain>>
       ELSE Propagate(w)
    /\ UNCHANGED <<calcvars, cfg, stop_event, request_queue, queue_counter,
                   created, wcancel, request_count,
                   response_count, failed,
                   run_start_calls, run_complete_calls, complete_args>>

\* The error callback has answered: next request, or stop.
AfterCallback(w) ==
    /\ wpc[w] = "handled"
    /\ AfterHandler(w, job[w].handler_result = "true")
    /\ UNCHANGED <<calcvars, cfg, stop_event, request_queue, queue_counter,
                   created, wcancel, request_count,
                   response_count, failed,
                   run_start_calls, run_complete_calls, complete_args>>

\* The generator is exhausted: the loop body ends.
ContinuationEnds(w) ==
    /\ wpc[w] = "continuation"
    /\ ~wcancel[w]
    /\ MayRun(w)
    /\ EndOfBody(w)
    /\ UNCHANGED <<calcvars, cfg, stop_event, request_queue, queue_counter,
                   created, wcancel, request_count, response_count, failed,
                   run_start_calls, run_complete_calls, complete_args>>

\* ------------------------------------------------ AsyncDriver.run: the wait
\* for worker in workers: worker.cancel()
CancelAll == wcancel' = [w \in Workers |-> wpc[w] \notin Finished]

\* stop_event is set: cancel the workers, drain the queue, leave the loop.
StopRequested ==
    /\ rpc = "join"
    /\ NoneRunning
    /\ stop_event
    /\ CancelAll
    /\ request_queue' = {}
    /\ unfinished_tasks' = unfinished_tasks - Cardinality(request_queue)
    /\ rpc' = "gather"
    /\ UNCHANGED <<calcvars, cfg, stop_event, queue_counter, created, status,
                   error, wpc, wreq, widx, wyield, wexc, request_count,
                   response_count, chain, job, failed,
                   run_start_calls, run_complete_calls, complete_args>>

\* The join wait not consulting the count of unfinished tasks.
JoinDoneAlways == TRUE

\* Queue.join() returns when every item put has been marked done.
JoinDone == unfinished_tasks = 0

\* wait_for(shield(request_queue.join())) returns without a timeout.
JoinCompleted ==
    /\ rpc = "join"
    /\ NoneRunning
    /\ JoinDone
    /\ CancelAll
    /\ rpc' = "gather"
    /\ UNCHANGED <<calcvars, cfg, stop_event, request_queue, queue_counter,
                   unfinished_tasks, created, status,
                   error, wpc, wreq, widx, wyield, wexc, request_count,
                   response_count, chain, job, failed,
                   run_start_calls, run_complete_calls, complete_args>>

\* CancelledError reaches a cancelled worker at the await it is suspended in.
\* Waiting in queue.get() it breaks; holding a request it leaves through the
\* finally clause, which marks the task done.
WorkerCancelled(w) ==
    /\ wcancel[w]
    /\ wpc[w] \in Suspended
    /\ MayRun(w)
    /\ wpc[w] \in {"loop", "get"} => FirstIdle(w)
    /\ wpc' = [wpc EXCEPT ![w] = "done"]
    /\ IF wpc[w] \in {"loop", "get"}
       THEN UNCHANGED <<unfinished_tasks, wreq, widx, wyield, chain, job, failed>>
       ELSE /\ TaskDone
            /\ Release(w)
            /\ failed' = (failed \/ wpc[w] \in {"modify_request", "send",
                                                "modify_response"})
    /\ UNCHANGED <<calcvars, cfg, stop_event, request_queue, queue_counter,
                   created, rpc, status, error,
                   wcancel, wexc, request_count, response_count,
                   run_start_calls, run_complete_calls, complete_args>>

\* gather not waiting for the worker tasks.
AllWorkersDoneNoWait == TRUE

\* Every worker task has finished.
AllWorkersDone == \A w \in Workers : wpc[w] \in Finished

\* asyncio.gather(*workers, return_exceptions=True) returns.
Gathered ==
    /\ rpc = "gather"
    /\ AllWorkersDone
    /\ rpc' = "finally"
    /\ UNCHANGED <<calcvars, cfg, stop_event, request_queue, queue_counter,
                   unfinished_tasks, created, status,
                   error, wpc, wreq, widx, wyield, wcancel, wexc,
                   request_count, response_count, chain, job, failed,
                   run_start_calls, run_complete_calls, complete_args>>

Next ==
    \/ RunStart
    \/ EarlyStop
    \/ EntryRaises
    \/ PushEntry
    \/ RunComplete
    \/ SetStop
    \/ QueueExhausted
    \/ StopRequested
    \/ JoinCompleted
    \/ Gathered
    \/ \E w \in Workers : WorkerStop(w)
    \/ \E w \in Workers : WorkerWait(w)
    \/ \E w \in Workers : WorkerPop(w)
    \/ \E w \in Workers : ModifyRequest(w)
    \/ \E w \in Workers : Send(w)
    \/ \E w \in Workers : SendTimesOut(w)
    \/ \E w \in Workers : ModifyResponse(w)
    \/ \E w \in Workers : Dispatch(w)
    \/ \E w \in Workers : OnArchive(w)
    \/ \E w \in Workers : HandleResolveError(w)
    \/ \E w \in Workers : YieldRequest(w)
    \/ \E w \in Workers : YieldData(w)
    \/ \E w \in Workers : ContinuationRaises(w)
    \/ \E w \in Workers : HandleContinuationError(w)
    \/ \E w \in Workers : AfterCallback(w)
    \/ \E w \in Workers : ContinuationEnds(w)
    \/ \E w \in Workers : WorkerCancelled(w)

Spec == Init /\ [][Next]_vars

\* The steps of the driver itself: every step but the setting of the stop
\* event, which nobody has to do.
DriverStep == Next /\ stop_event' = stop_event

\* The event loop runs a task that is ready, and the loop of the SyncDriver
\* goes on: a driver step that stays possible is eventually taken.
FairSpec == Spec /\ WF_vars(DriverStep)

\* ========================================================== HandleDataSpec
\* A driver constructed with or without on_data and on_invalid_data, about
\* to iterate a continuation.
HandleDataInit ==
    /\ DriverInit
    /\ cfg = [driver |-> "sync", num_workers |-> 1,
              on_transient_exception |-> FALSE, on_structural_error |-> FALSE]
    /\ data_call \in [pc : {"iterating"},
                      on_data : BOOLEAN,
                      on_invalid_data : BOOLEAN,
                      yields : {0},
                      data : {[deferred |-> FALSE, valid |-> TRUE, raw |-> "a"]},
                      on_data_does : {"returns"},
                      result : {NoDataResult}]
    /\ dedup = Idle
    /\ tree = Idle
    /\ objects = Idle
    /\ lock = Idle
    /\ warc = Idle
    /\ limiter = Idle
    /\ resolution = Idle

\* The continuation yields a ParsedData and the driver calls handle_data on
\* what it carries; an exception ends the iteration.
HandleDataCall ==
    /\ data_call.pc = "iterating"
    /\ data_call.yields < MaxYields
    /\ \E data \in {d \in DataItems : ~d.deferred => d.valid},
          on_data_does \in OnDataOutcomes :
          LET result == HandleData(data, data_call.on_data,
                                   data_call.on_invalid_data, on_data_does)
          IN  data_call' = [data_call EXCEPT
                  !.pc = IF result.raised = NoExc THEN "iterating" ELSE "raised",
                  !.yields = @ + 1,
                  !.data = data,
                  !.on_data_does = on_data_does,
                  !.result = result]
    /\ UNCHANGED <<drivervars, dedup, tree, objects, lock, warc, limiter, resolution>>

HandleDataNext == HandleDataCall

HandleDataSpec == HandleDataInit /\ [][HandleDataNext]_vars

\* ============================================================= EnqueueSpec
\* Request construction (the deduplication key) and enqueue_request, on the
\* variable dedup.

MaxEnqueue == 2

Methods == {"GET", "POST"}
Urls == {"/a", "/b"}
ParamValues == {"None", "page=1"}
DataValues == {"None", "q=x"}
JsonValues == {"None", "{id:1}"}

\* The fields of HTTPRequestParams the key generation reads, and method.
HTTPRequestParams ==
    [method : Methods, url : Urls, params : ParamValues, data : DataValues,
     json : JsonValues]

\* The string that is hashed, as the tuple of its parts: the url, extended
\* by "?" and the sorted params when params is truthy; the sorted data when
\* data is truthy; "|" and the dumped json when json is not None.  The
\* method is not read.  SHA-256 and the joining with "|" are taken as
\* injective on these parts.
_generate_deduplication_key(request_params) ==
    LET url_str == IF request_params.params # "None"
                   THEN <<request_params.url, "?", request_params.params>>
                   ELSE <<request_params.url>>
        data_only == IF request_params.data # "None"
                     THEN <<request_params.data>> ELSE <<>>
        data_str == IF request_params.json # "None"
                    THEN <<data_only, "|", request_params.json>>
                    ELSE data_only
    IN  <<"str", url_str, "|", data_str>>

SkipDeduplicationCheck == <<"SkipDeduplicationCheck">>
CustomKey == <<"str", "custom">>

\* deduplication_key as passed to the constructor.
KeyArguments == {<<"None">>, SkipDeduplicationCheck, CustomKey}

\* BaseRequest.__post_init__: a key of None is replaced by the generated one.
PostInitKey(request_params, deduplication_key) ==
    IF deduplication_key = <<"None">>
    THEN _generate_deduplication_key(request_params)
    ELSE deduplication_key

IsStr(key) == key[1] = "str"

\* Variant of DuplicateCheckCalled that asks the callback for every key.
DuplicateCheckCalledAnyKey(key, duplicate_check) == duplicate_check

\* enqueue_request's match on the key: the callback is consulted only for a
\* str key and only when it is configured.
DuplicateCheckCalled(key, duplicate_check) ==
    IsStr(key) /\ duplicate_check

EnqueueInit ==
    /\ DriverInit
    /\ cfg = [driver |-> "sync", num_workers |-> 1,
              on_transient_exception |-> FALSE, on_structural_error |-> FALSE]
    /\ dedup \in [pc : {"running"}, duplicate_check : BOOLEAN,
                  queue : {<<>>}, counter : {0}, check_calls : {<<>>},
                  yielded : {<<>>}, answers : {<<>>}]
    /\ data_call = Idle
    /\ tree = Idle
    /\ objects = Idle
    /\ lock = Idle
    /\ warc = Idle
    /\ limiter = Idle
    /\ resolution = Idle

\* One call of enqueue_request for a request built with the given
\* parameters and key argument; answer is what duplicate_check returns when
\* it is called.
EnqueueRequest ==
    /\ dedup.pc = "running"
    /\ Len(dedup.yielded) < MaxEnqueue
    /\ \E request_params \in HTTPRequestParams, key_argument \in KeyArguments,
          priority \in {DefaultPriority, ArchivePriority},
          answer \in BOOLEAN :
          LET dedup_key == PostInitKey(request_params, key_argument)
              resolved_request == [request |-> request_params,
                                   priority |-> priority,
                                   key_argument |-> key_argument,
                                   deduplication_key |-> dedup_key]
              called == DuplicateCheckCalled(dedup_key, dedup.duplicate_check)
              returns_early == called /\ ~answer
          IN  dedup' =
                [dedup EXCEPT
                   !.yielded = Append(@, resolved_request),
                   !.answers = Append(@, IF called THEN answer ELSE TRUE),
                   !.check_calls = IF called THEN Append(@, dedup_key) ELSE @,
                   !.queue = IF returns_early THEN @
                             ELSE Append(@, <<priority, dedup.counter,
                                              resolved_request>>),
                   !.counter = IF returns_early THEN @ ELSE @ + 1]
    /\ UNCHANGED <<drivervars, data_call, tree, objects, lock, warc, limiter, resolution>>

EnqueueNext == EnqueueRequest

EnqueueSpec == EnqueueInit /\ [][EnqueueNext]_vars

\* ============================================================= ResolveSpec
\* Requests as the scraper yields them and as enqueue_request resolves them
\* against their context, and the responses resolve_request builds, on the
\* variable tree.

MaxNodes == 4
MaxChildren == 1

\* ---- dicts ---------------------------------------------------------------
EmptyDict == [k \in {} |-> 0]

\* dict.update and {**d1, **d2}: the keys of d2 replace those of d1.
Update(d1, d2) ==
    [k \in DOMAIN d1 \cup DOMAIN d2 |-> IF k \in DOMAIN d2 THEN d2[k] ELSE d1[k]]

\* ---- urls ----------------------------------------------------------------
\* A url is its path segments and whether it has a scheme and host; the
\* empty string is the relative url without segments.
Abs(path) == [abs |-> TRUE, path |-> path]
Rel(path) == [abs |-> FALSE, path |-> path]
EmptyUrl == Rel(<<>>)

Dir(path) == IF path = <<>> THEN <<>> ELSE SubSeq(path, 1, Len(path) - 1)

\* urllib.parse.urljoin: an empty base gives the url, an empty url the base,
\* a url with its own scheme is kept, and a relative path replaces the last
\* segment of the base path.
urljoin(base, url) ==
    IF base = EmptyUrl THEN url
    ELSE IF url = EmptyUrl THEN base
    ELSE IF url.abs THEN url
    ELSE [abs |-> base.abs, path |-> Dir(base.path) \o url.path]

\* quote(unquote(segment)): a space is percent-encoded, an encoded space
\* stays encoded once.
unquote(segment) == IF segment = "s%20p" THEN "s p" ELSE segment
quote(segment) == IF segment = "s p" THEN "s%20p" ELSE segment

resolve_url(url, current_location) ==
    LET reencoded_url ==
            [url EXCEPT !.path = [k \in DOMAIN url.path |->
                                      quote(unquote(url.path[k]))]]
    IN  urljoin(current_location, reencoded_url)

EntryUrl == Abs(<<"court", "index">>)
YieldedUrls == {Rel(<<"x">>), Rel(<<"docs", "s p">>), Abs(<<"b", "c">>)}
Kinds == {"NavigatingRequest", "NonNavigatingRequest", "ArchiveRequest"}

\* ---- permanent -----------------------------------------------------------
Permanents ==
    {EmptyDict,
     "headers" :> ("A" :> 1),
     "headers" :> ("B" :> 2),
     "headers" :> ("A" :> 3),
     "cookies" :> ("C" :> 1)}

PermanentPart(permanent, part) ==
    IF part \in DOMAIN permanent THEN permanent[part] ELSE EmptyDict

\* ---- requests ------------------------------------------------------------
\* BaseRequest.__post_init__ with _merge_permanent_into_request: a non-empty
\* permanent has its headers and cookies written over those of the request.
\* A headers or cookies of None is the empty dict here.
BaseRequest(id, kind, url, headers, cookies, current_location, previous_requests, permanent) ==
    [id |-> id,
     kind |-> kind,
     url |-> url,
     headers |-> IF permanent # EmptyDict /\ "headers" \in DOMAIN permanent
                 THEN Update(headers, permanent["headers"]) ELSE headers,
     cookies |-> IF permanent # EmptyDict /\ "cookies" \in DOMAIN permanent
                 THEN Update(cookies, permanent["cookies"]) ELSE cookies,
     current_location |-> current_location,
     previous_requests |-> previous_requests,
     permanent |-> permanent]

ResponseContext(response) ==
    [type |-> "Response", url |-> response.url, request |-> response.request]
RequestContext(request) ==
    [type |-> "BaseRequest", url |-> EmptyUrl, request |-> request]

\* resolve_request_from and the three resolve_from methods: the location is
\* the url of a Response context or the current_location of a request
\* context; the new HTTPRequestParams take url, method, headers and data;
\* permanent is the parent's overwritten key by key with the item's.
resolve_from(id, self, context) ==
    LET resolved_location == IF context.type = "Response"
                             THEN context.url
                             ELSE context.request.current_location
        parent_request == context.request
        merged_permanent == Update(parent_request.permanent, self.permanent)
    IN  BaseRequest(id, self.kind,
                    resolve_url(self.url, resolved_location),
                    self.headers, EmptyDict,
                    resolved_location,
                    Append(parent_request.previous_requests,
                           parent_request.id),
                    merged_permanent)

\* ---- responses -----------------------------------------------------------
\* Where the response of resolve_request comes from: the HTTP client, a hit
\* of WarcCacheInterceptor, or a hit of MockInterceptor.
Sources == {"http", "warc_cache", "mock"}

NoResponse ==
    [url |-> EmptyUrl,
     request |-> BaseRequest(0, "None", EmptyUrl, EmptyDict, EmptyDict,
                             EmptyUrl, <<>>, EmptyDict),
     source |-> "none", dispatched |-> 0]

\* Identities of requests that are not in the tree: the request an
\* interceptor returned in place of node i, and the one a mock response for
\* node i was built with.
ReplacementId(i) == 10 + i
PrebuiltId(i) == 20 + i

\* The request of a mock response: built by whoever built the mock, for the
\* same url.
PrebuiltRequest(i, request) ==
    BaseRequest(PrebuiltId(i), request.kind, request.url, EmptyDict,
                EmptyDict, EmptyUrl, <<>>, EmptyDict)

\* resolve_request and resolve_archive_request: the response carries the
\* request after modify_request (http, cache hit), the request the mock
\* response was built with, or for an ArchiveRequest the popped request.
Resolve(i, request, source, replaced) ==
    LET modified_request == IF replaced
                            THEN [request EXCEPT !.id = ReplacementId(i)]
                            ELSE request
        response_request ==
            IF request.kind = "ArchiveRequest" THEN request
            ELSE IF source = "mock" THEN PrebuiltRequest(i, request)
            ELSE modified_request
    IN  [url |-> request.url, request |-> response_request,
         source |-> source, dispatched |-> modified_request.id]

\* ---- the tree ------------------------------------------------------------
Node(request, yielded, yielded_by) ==
    [request |-> request, yielded |-> yielded, yielded_by |-> yielded_by,
     response |-> NoResponse]

\* run() pushes get_entry() as it is: current_location is its default "".
EntryNode(permanent) ==
    LET entry == BaseRequest(1, "NavigatingRequest", EntryUrl, EmptyDict,
                             EmptyDict, EmptyUrl, <<>>, permanent)
    IN  Node(entry, entry, 0)

TreeInit(permanents) ==
    /\ DriverInit
    /\ cfg = [driver |-> "sync", num_workers |-> 1,
              on_transient_exception |-> FALSE, on_structural_error |-> FALSE]
    /\ \E permanent \in permanents :
          tree = [pc |-> "running", nodes |-> <<EntryNode(permanent)>>]
    /\ data_call = Idle
    /\ dedup = Idle
    /\ objects = Idle
    /\ lock = Idle
    /\ warc = Idle
    /\ limiter = Idle
    /\ resolution = Idle

Children(i) == {k \in DOMAIN tree.nodes : tree.nodes[k].yielded_by = i}

\* The request of node i is popped and resolved.
ResolveRequest(i, sources, replacements) ==
    /\ tree.pc = "running"
    /\ i \in DOMAIN tree.nodes
    /\ tree.nodes[i].response.source = "none"
    /\ \E source \in sources, replaced \in replacements :
          tree' = [tree EXCEPT !.nodes[i].response =
                       Resolve(i, tree.nodes[i].request, source, replaced)]
    /\ UNCHANGED <<drivervars, data_call, dedup, objects, lock, warc, limiter, resolution>>

\* The continuation run on the response of node i yields a request: a
\* NavigatingRequest is resolved from the response, the other two from the
\* popped request.
YieldItem(i, urls, permanents) ==
    /\ tree.pc = "running"
    /\ i \in DOMAIN tree.nodes
    /\ tree.nodes[i].response.source # "none"
    /\ Len(tree.nodes) < MaxNodes
    /\ Cardinality(Children(i)) < MaxChildren
    /\ \E kind \in Kinds, url \in urls, permanent \in permanents :
          LET id == Len(tree.nodes) + 1
              item == BaseRequest(id, kind, url, EmptyDict, EmptyDict,
                                  EmptyUrl, <<>>, permanent)
              context == IF kind = "NavigatingRequest"
                         THEN ResponseContext(tree.nodes[i].response)
                         ELSE RequestContext(tree.nodes[i].request)
              resolved_request == resolve_from(id, item, context)
          IN  tree' = [tree EXCEPT
                         !.nodes = Append(@, Node(resolved_request, item, i))]
    /\ UNCHANGED <<drivervars, data_call, dedup, objects, lock, warc, limiter, resolution>>

\* Urls vary, permanent is empty.
ResolveInit == TreeInit({EmptyDict})
ResolveNext ==
    \/ \E i \in 1..MaxNodes : ResolveRequest(i, Sources, BOOLEAN)
    \/ \E i \in 1..MaxNodes : YieldItem(i, YieldedUrls, {EmptyDict})
ResolveSpec == ResolveInit /\ [][ResolveNext]_vars

\* Permanents vary, one relative url; every response carries the request it
\* was made for.
PermanentInit == TreeInit(Permanents)
PermanentNext ==
    \/ \E i \in 1..MaxNodes : ResolveRequest(i, {"http", "warc_cache"}, {FALSE})
    \/ \E i \in 1..MaxNodes : YieldItem(i, {Rel(<<"x">>)}, Permanents)
PermanentSpec == PermanentInit /\ [][PermanentNext]_vars

\* ================================================================ CopySpec
\* The mutable mappings of requests (accumulated_data, aux_data, permanent)
\* as objects on a heap, on the variable objects.  A heap cell is a dict
\* with one scalar entry (val) and at most one nested dict (child, 0 when
\* absent); an address is an index into the heap.

MaxSiblings == 2
MaxMutations == 2

Fields == {"accumulated_data", "aux_data", "permanent"}

RECURSIVE Cells(_, _)
Cells(heap, a) ==
    IF a = 0 THEN {} ELSE {a} \cup Cells(heap, heap[a].child)

RECURSIVE DeepValue(_, _)
DeepValue(heap, a) ==
    IF a = 0 THEN <<>> ELSE <<heap[a].val, DeepValue(heap, heap[a].child)>>

\* The cells a deep copy of a allocates after n existing ones.
RECURSIVE CopyCells(_, _, _)
CopyCells(heap, a, n) ==
    IF a = 0 THEN <<>>
    ELSE <<[val |-> heap[a].val,
            child |-> IF heap[a].child = 0 THEN 0 ELSE n + 2]>>
         \o CopyCells(heap, heap[a].child, n + 1)

\* Variant of deepcopy: copy.copy, a new dict whose nested dict is shared.
ShallowCopy(heap, a) ==
    [heap |-> Append(heap, heap[a]), root |-> Len(heap) + 1]

\* copy.deepcopy: the new heap and the address of the copy.
deepcopy(heap, a) ==
    [heap |-> heap \o CopyCells(heap, a, Len(heap)), root |-> Len(heap) + 1]

\* {**parent, **self}: a new dict; the entries of self replace those of
\* parent, nested dicts are shared with their origin.
MergeDicts(heap, parent, self) ==
    [heap |-> Append(heap, [val |-> heap[self].val,
                            child |-> IF heap[self].child # 0
                                      THEN heap[self].child
                                      ELSE heap[parent].child]),
     root |-> Len(heap) + 1]

\* BaseRequest.__post_init__: each of the three mappings passed to the
\* constructor is replaced by a deep copy.
PostInitCopies(heap, accumulated_data, aux_data, permanent, resolved_from) ==
    LET c1 == deepcopy(heap, accumulated_data)
        c2 == deepcopy(c1.heap, aux_data)
        c3 == deepcopy(c2.heap, permanent)
    IN  [heap |-> c3.heap,
         request |-> [accumulated_data |-> c1.root, aux_data |-> c2.root,
                      permanent |-> c3.root, resolved_from |-> resolved_from]]

\* The mappings the continuation builds its requests from (1, 3 and 5, each
\* with a nested dict unless nested is false) and the permanent of the
\* parent request (7).
SourceHeap(nested) ==
    LET inner == [val |-> 0, child |-> 0]
        outer(a) == [val |-> 0, child |-> IF nested THEN a + 1 ELSE 0]
    IN  <<outer(1), inner, outer(3), inner, outer(5), inner,
          [val |-> 0, child |-> 8], inner>>

SourceMappings == [accumulated_data |-> 1, aux_data |-> 3, permanent |-> 5]
ParentPermanent == 7

CopyInit ==
    /\ DriverInit
    /\ cfg = [driver |-> "sync", num_workers |-> 1,
              on_transient_exception |-> FALSE, on_structural_error |-> FALSE]
    /\ \E nested \in BOOLEAN :
          objects = [pc |-> "running", heap |-> SourceHeap(nested),
                     requests |-> <<>>, mutations |-> 0,
                     via |-> <<"none", 0, "none">>, cell |-> 0]
    /\ data_call = Idle
    /\ dedup = Idle
    /\ tree = Idle
    /\ lock = Idle
    /\ warc = Idle
    /\ limiter = Idle
    /\ resolution = Idle

\* The continuation constructs a request from the source mappings.
ConstructRequest ==
    /\ objects.pc = "running"
    /\ Cardinality({i \in DOMAIN objects.requests :
                       objects.requests[i].resolved_from = 0}) < MaxSiblings
    /\ LET c == PostInitCopies(objects.heap, SourceMappings.accumulated_data,
                               SourceMappings.aux_data, SourceMappings.permanent, 0)
       IN  objects' = [objects EXCEPT !.heap = c.heap,
                                      !.requests = Append(@, c.request)]
    /\ UNCHANGED <<drivervars, data_call, dedup, tree, lock, warc, limiter, resolution>>

\* enqueue_request resolves yielded request i: resolve_from passes the
\* item's accumulated_data and aux_data and the merged permanent to the
\* constructor of the resolved request.
ResolveCopy(i) ==
    /\ objects.pc = "running"
    /\ i \in DOMAIN objects.requests
    /\ objects.requests[i].resolved_from = 0
    /\ \A j \in DOMAIN objects.requests : objects.requests[j].resolved_from # i
    /\ LET self == objects.requests[i]
           merged_permanent == MergeDicts(objects.heap, ParentPermanent,
                                          self.permanent)
           c == PostInitCopies(merged_permanent.heap, self.accumulated_data,
                               self.aux_data, merged_permanent.root, i)
       IN  objects' = [objects EXCEPT !.heap = c.heap,
                                      !.requests = Append(@, c.request)]
    /\ UNCHANGED <<drivervars, data_call, dedup, tree, lock, warc, limiter, resolution>>

\* The address a holder's mapping starts at: a field of request i, or a
\* source mapping (i = 0).
Root(holder) ==
    IF holder[1] = "request" THEN objects.requests[holder[2]][holder[3]]
    ELSE SourceMappings[holder[3]]

Holders ==
    {<<"source", 0, f>> : f \in Fields}
    \cup {<<"request", i, f>> : i \in DOMAIN objects.requests, f \in Fields}

\* Code holding a request or the source mapping changes an entry of the
\* mapping, at the top or in the nested dict.
Mutate ==
    /\ objects.pc = "running"
    /\ objects.mutations < MaxMutations
    /\ \E holder \in Holders :
       \E a \in Cells(objects.heap, Root(holder)) :
          objects' = [objects EXCEPT !.heap[a].val = 1 - @,
                                     !.mutations = @ + 1,
                                     !.via = holder,
                                     !.cell = a]
    /\ UNCHANGED <<drivervars, data_call, dedup, tree, lock, warc, limiter, resolution>>

CopyNext ==
    \/ ConstructRequest
    \/ \E i \in 1..(2 * MaxSiblings) : ResolveCopy(i)
    \/ Mutate

CopySpec == CopyInit /\ [][CopyNext]_vars

\* ================================================================ LockSpec
\* The workers of an AsyncDriver inside enqueue_request, on the variable
\* lock.  Every await is a point at which the other workers may run: the
\* duplicate_check callback, the acquisition of self._queue_lock, and
\* request_queue.put.

MaxCalls == 4

\* The lock not consulted.
CanAcquireAlways(locked) == TRUE

\* asyncio.Lock.acquire returns at once only when the lock is free.
CanAcquire(locked) == ~locked

\* run() has pushed the entry request with counter 0 and started the
\* workers.
LockInit ==
    /\ DriverInit
    /\ cfg = [driver |-> "async", num_workers |-> MaxWorkers,
              on_transient_exception |-> FALSE, on_structural_error |-> FALSE]
    /\ lock = [pc |-> "running",
               locked |-> FALSE,
               queue_counter |-> 1,
               pushed |-> <<0>>,
               calls |-> 0,
               epc |-> [w \in Workers |-> "iterating"]]
    /\ data_call = Idle
    /\ dedup = Idle
    /\ tree = Idle
    /\ objects = Idle
    /\ warc = Idle
    /\ limiter = Idle
    /\ resolution = Idle

LockFrame == UNCHANGED <<drivervars, data_call, dedup, tree, objects, warc, limiter, resolution>>

\* A continuation yields a request: enqueue_request resolves it and awaits
\* duplicate_check for a str key.
CallEnqueue(w) ==
    /\ lock.pc = "running"
    /\ lock.epc[w] = "iterating"
    /\ lock.calls < MaxCalls
    /\ lock' = [lock EXCEPT !.calls = @ + 1, !.epc[w] = "duplicate_check"]
    /\ LockFrame

\* duplicate_check answers (or was not asked): return, or go on to the lock.
AfterDuplicateCheck(w) ==
    /\ lock.pc = "running"
    /\ lock.epc[w] = "duplicate_check"
    /\ \E is_new \in BOOLEAN :
          lock' = [lock EXCEPT !.epc[w] = IF is_new THEN "acquire"
                                          ELSE "iterating"]
    /\ LockFrame

\* async with self._queue_lock
Acquire(w) ==
    /\ lock.pc = "running"
    /\ lock.epc[w] = "acquire"
    /\ CanAcquire(lock.locked)
    /\ lock' = [lock EXCEPT !.locked = TRUE, !.epc[w] = "put"]
    /\ LockFrame

\* await self.request_queue.put((priority, self._queue_counter, request))
Put(w) ==
    /\ lock.pc = "running"
    /\ lock.epc[w] = "put"
    /\ lock' = [lock EXCEPT !.pushed = Append(@, lock.queue_counter),
                            !.epc[w] = "increment"]
    /\ LockFrame

\* self._queue_counter += 1, and the lock is released on leaving the block.
IncrementCounter(w) ==
    /\ lock.pc = "running"
    /\ lock.epc[w] = "increment"
    /\ lock' = [lock EXCEPT !.queue_counter = @ + 1,
                            !.locked = FALSE,
                            !.epc[w] = "iterating"]
    /\ LockFrame

LockNext ==
    \/ \E w \in Workers : CallEnqueue(w)
    \/ \E w \in Workers : AfterDuplicateCheck(w)
    \/ \E w \in Workers : Acquire(w)
    \/ \E w \in Workers : Put(w)
    \/ \E w \in Workers : IncrementCounter(w)

LockSpec == LockInit /\ [][LockNext]_vars

\* ================================================================ WarcSpec
\* A WARC file written by a WarcCaptureInterceptor in one run and then
\* loaded by a WarcCacheInterceptor for a replay of the same requests, on
\* the variable warc.

MaxRecords == 2

WarcUrls == {"http://a/1", "http://a/2"}
\* request.request.data: "" stands for no body (None or empty).
Bodies == {"", "q=1"}
Contents == {"<a>", "<b>"}

HttpRequests == [method : Methods, url : WarcUrls, data : Bodies]
\* Status codes of responses that reach modify_response: below 500.
RecordedStatuses == {200, 404}
HttpResponses == [url : WarcUrls, status_code : RecordedStatuses, content : Contents]

\* hashlib.sha256 of the combined string, taken as injective: the key is the
\* triple the string is made of.
sha256(method, url, body) == <<method, url, body>>

\* WarcCacheInterceptor._get_cache_key
_get_cache_key(request) == sha256(request.method, request.url, request.data)

\* The record WarcCaptureInterceptor.modify_response writes: the response's
\* url as WARC-Target-URI, the request's method as X-HTTP-Method, the status
\* line and the payload.
WarcRecord(response, request) == [uri |-> response.url, method |-> request.method, statusline |-> response.status_code, payload |-> response.content]

\* The key _load_warc gives a record: method and url, no body.
LoadKey(record) == sha256(record.method, record.uri, "")

\* WarcCacheInterceptor._load_warc: one Response per key, a later record
\* replacing an earlier one of the same key; status 200, no headers.
_load_warc(file) == [k \in {LoadKey(file[i]) : i \in DOMAIN file} |-> LET last == CHOOSE i \in DOMAIN file : LoadKey(file[i]) = k /\ \A j \in DOMAIN file : LoadKey(file[j]) = k => j <= i IN [url |-> file[last].uri, status_code |-> 200, content |-> file[last].payload]]

WarcInit ==
    /\ DriverInit
    /\ cfg = [driver |-> "sync", num_workers |-> 1,
              on_transient_exception |-> FALSE, on_structural_error |-> FALSE]
    /\ warc = [pc |-> "capture",
               file |-> << >>,
               recorded |-> << >>,
               _cache |-> << >>,
               replayed |-> << >>]
    /\ data_call = Idle
    /\ dedup = Idle
    /\ tree = Idle
    /\ objects = Idle
    /\ lock = Idle
    /\ limiter = Idle
    /\ resolution = Idle

WarcFrame == UNCHANGED <<drivervars, data_call, dedup, tree, objects, lock, limiter, resolution>>

\* Run A: WarcCaptureInterceptor.modify_response(response, request).  The
\* driver builds a Response with the url of the request it sent.
CaptureModifyResponse ==
    /\ warc.pc = "capture"
    /\ Len(warc.file) < MaxRecords
    /\ \E request \in HttpRequests, response \in HttpResponses :
          /\ response.url = request.url
          /\ warc' = [warc EXCEPT
                         !.file = Append(@, WarcRecord(response, request)),
                         !.recorded = Append(@, [request |-> request,
                                                 response |-> response])]
    /\ WarcFrame

\* close() and WarcCacheInterceptor(warc_path).
LoadWarc ==
    /\ warc.pc = "capture"
    /\ warc.file # << >>
    /\ warc' = [warc EXCEPT !.pc = "replay", !._cache = _load_warc(warc.file)]
    /\ WarcFrame

\* Run B: WarcCacheInterceptor.modify_request on the next request of run A.
\* A hit returns the cached Response with the request attached, a miss
\* returns the request.
CacheModifyRequest ==
    /\ warc.pc = "replay"
    /\ Len(warc.replayed) < Len(warc.recorded)
    /\ LET request == warc.recorded[Len(warc.replayed) + 1].request
           cache_key == _get_cache_key(request)
           hit == cache_key \in DOMAIN warc._cache
       IN warc' = [warc EXCEPT !.replayed = Append(@,
                      [hit |-> hit,
                       request |-> request,
                       url |-> IF hit THEN warc._cache[cache_key].url ELSE "",
                       status_code |-> IF hit THEN warc._cache[cache_key].status_code ELSE 0,
                       content |-> IF hit THEN warc._cache[cache_key].content ELSE ""])]
    /\ WarcFrame

WarcNext ==
    \/ CaptureModifyResponse
    \/ LoadWarc
    \/ CacheModifyRequest

WarcSpec == WarcInit /\ [][WarcNext]_vars

\* ============================================================= LimiterSpec
\* A RateLimitInterceptor and the calls made on it, on the variable limiter.
\* current_rate is a float; it is kept as the exact fraction num / den.

MaxLimiterCalls == 4

LimiterStatuses == {200, 429}
\* requests_per_second (or requests_per_minute) given to the constructor.
InitialRates == {1, 2, 10}
\* adaptive_increase as a fraction: 0.10 and 0.50.
AdaptiveIncreases == {<<1, 10>>, <<1, 2>>}

Fraction(num, den) == [num |-> num, den |-> den]
FractionLess(a, b) == a.num * b.den < b.num * a.den

\* int(self.current_rate)
IntOf(rate) == rate.num \div rate.den

\* self.current_rate / (1.0 + self.adaptive_increase)
ReducedRate(rate, increase) == Fraction(rate.num * increase[2], rate.den * (increase[2] + increase[1]))

\* _create_limiter: Rate(int(self.current_rate), self.duration).  The
\* Rate of pyrate_limiter asserts that its limit is not zero, so the call
\* raises AssertionError once current_rate is below 1.
CreateLimiterRaises(rate) == IntOf(rate) = 0

LimiterInit ==
    /\ DriverInit
    /\ cfg = [driver |-> "sync", num_workers |-> 1,
              on_transient_exception |-> FALSE, on_structural_error |-> FALSE]
    /\ \E adaptive \in BOOLEAN, rate \in InitialRates, increase \in AdaptiveIncreases :
          limiter = [pc |-> "running",
                     adaptive |-> adaptive,
                     adaptive_increase |-> increase,
                     initial_rate |-> Fraction(rate, 1),
                     current_rate |-> Fraction(rate, 1),
                     bucket_limit |-> rate,
                     total_requests |-> 0,
                     adaptive_reductions |-> 0,
                     request_calls |-> 0,
                     response_calls |-> 0,
                     calls_429 |-> 0,
                     raised |-> NoExc]
    /\ data_call = Idle
    /\ dedup = Idle
    /\ tree = Idle
    /\ objects = Idle
    /\ lock = Idle
    /\ warc = Idle
    /\ resolution = Idle

LimiterFrame == UNCHANGED <<drivervars, data_call, dedup, tree, objects, lock, warc, resolution>>

LimiterCalls == limiter.request_calls + limiter.response_calls

\* modify_request: limiter.try_acquire (which may sleep), total_requests += 1.
LimiterModifyRequest ==
    /\ limiter.pc = "running"
    /\ LimiterCalls < MaxLimiterCalls
    /\ limiter' = [limiter EXCEPT !.total_requests = @ + 1,
                                  !.request_calls = @ + 1,
                                  !.raised = NoExc]
    /\ LimiterFrame

\* _reduce_rate: the new current_rate is stored, then _create_limiter, then
\* adaptive_reductions += 1; a raise in _create_limiter leaves the old
\* limiter and the old count.
_reduce_rate(l) == LET rate == ReducedRate(l.current_rate, l.adaptive_increase) IN IF CreateLimiterRaises(rate) THEN [l EXCEPT !.current_rate = rate, !.raised = "AssertionError"] ELSE [l EXCEPT !.current_rate = rate, !.bucket_limit = IntOf(rate), !.adaptive_reductions = @ + 1, !.raised = NoExc]

\* modify_response(response, request)
LimiterModifyResponse ==
    /\ limiter.pc = "running"
    /\ LimiterCalls < MaxLimiterCalls
    /\ \E status_code \in LimiterStatuses :
          LET called == [limiter EXCEPT
                            !.response_calls = @ + 1,
                            !.calls_429 = IF status_code = 429 THEN @ + 1 ELSE @,
                            !.raised = NoExc]
          IN limiter' = IF called.adaptive /\ status_code = 429
                        THEN _reduce_rate(called)
                        ELSE called
    /\ LimiterFrame

LimiterNext ==
    \/ LimiterModifyRequest
    \/ LimiterModifyResponse

LimiterSpec == LimiterInit /\ [][LimiterNext]_vars

\* ============================================================ ResolutionSpec
\* One request with all of its fields, as a continuation constructs it and
\* as resolve_from rebuilds it, on the variable resolution.  permanent is
\* held empty (PermanentSpec varies it), so __post_init__ merges nothing.

HeaderValues == {"None", "{Accept:x}"}
CookieValues == {"None", "{sid:1}"}
ExpectedTypes == {"None", "pdf"}

\* HTTPRequestParams(...): the arguments left out take the defaults of the
\* dataclass, None for params, json and cookies.
RequestParams(method, url, params, data, json, headers, cookies) ==
    [method |-> method, url |-> url, params |-> params, data |-> data,
     json |-> json, headers |-> headers, cookies |-> cookies]

\* The constructor of a request class with __post_init__: a
\* deduplication_key of None is replaced by the generated key.
\* expected_type is a field of ArchiveRequest only ("None" elsewhere).
NewRequest(kind, request, continuation, current_location, previous_requests, accumulated_data, aux_data, priority, deduplication_key, permanent, expected_type) ==
    [kind |-> kind,
     request |-> request,
     continuation |-> continuation,
     current_location |-> current_location,
     previous_requests |-> previous_requests,
     accumulated_data |-> accumulated_data,
     aux_data |-> aux_data,
     priority |-> priority,
     deduplication_key |-> PostInitKey(request, deduplication_key),
     permanent |-> permanent,
     expected_type |-> expected_type]

\* resolve_request_from: HTTPRequestParams(url=..., method=..., headers=...,
\* data=...).
ResolvedParams(self, resolved_location) ==
    RequestParams(self.request.method,
                  resolve_url(self.request.url, resolved_location),
                  "None", self.request.data, "None",
                  self.request.headers, "None")

\* NavigatingRequest, NonNavigatingRequest and ArchiveRequest.resolve_from.
ResolveFrom(self, resolved_location, parent) ==
    NewRequest(self.kind,
               ResolvedParams(self, resolved_location),
               self.continuation,
               resolved_location,
               Append(parent.previous_requests, parent.id),
               self.accumulated_data,
               self.aux_data,
               self.priority,
               self.deduplication_key,
               Update(parent.permanent, self.permanent),
               self.expected_type)

\* The request whose continuation is running: the entry request, fetched.
ResolutionParent ==
    [id |-> 1, previous_requests |-> <<>>, permanent |-> EmptyDict,
     current_location |-> EmptyUrl, url |-> EntryUrl]

NoResolution ==
    NewRequest("None", RequestParams("GET", EmptyUrl, "None", "None", "None", "None", "None"),
               "None", EmptyUrl, <<>>, "None", "None", DefaultPriority,
               SkipDeduplicationCheck, EmptyDict, "None")

ResolutionInit ==
    /\ DriverInit
    /\ cfg = [driver |-> "sync", num_workers |-> 1,
              on_transient_exception |-> FALSE, on_structural_error |-> FALSE]
    /\ resolution = [pc |-> "continuation", item |-> NoResolution,
                     resolved_request |-> NoResolution]
    /\ data_call = Idle
    /\ dedup = Idle
    /\ tree = Idle
    /\ objects = Idle
    /\ lock = Idle
    /\ warc = Idle
    /\ limiter = Idle

ResolutionFrame == UNCHANGED <<drivervars, data_call, dedup, tree, objects, lock, warc, limiter>>

\* The continuation constructs a request and yields it.
YieldConstructed ==
    /\ resolution.pc = "continuation"
    /\ \E kind \in Kinds, method \in Methods, params \in ParamValues,
          data \in DataValues, json \in JsonValues,
          headers \in HeaderValues, cookies \in CookieValues,
          key \in KeyArguments, expected_type \in ExpectedTypes :
          /\ kind # "ArchiveRequest" => expected_type = "None"
          /\ resolution' =
               [resolution EXCEPT
                  !.pc = "enqueue_request",
                  !.item = NewRequest(kind,
                              RequestParams(method, Rel(<<"x">>), params, data,
                                            json, headers, cookies),
                              "parse_detail", EmptyUrl, <<>>, "{case:1}",
                              "{token:t}",
                              IF kind = "ArchiveRequest" THEN ArchivePriority
                              ELSE DefaultPriority,
                              key, EmptyDict, expected_type)]
    /\ ResolutionFrame

\* enqueue_request: request.resolve_from(context).  The context of a
\* NavigatingRequest is the response (its url), that of the other two the
\* parent request (its current_location).
ResolveYielded ==
    /\ resolution.pc = "enqueue_request"
    /\ LET resolved_location ==
               IF resolution.item.kind = "NavigatingRequest"
               THEN ResolutionParent.url
               ELSE ResolutionParent.current_location
       IN  resolution' =
             [resolution EXCEPT
                !.pc = "queued",
                !.resolved_request = ResolveFrom(resolution.item,
                                                 resolved_location,
                                                 ResolutionParent)]
    /\ ResolutionFrame

ResolutionNext ==
    \/ YieldConstructed
    \/ ResolveYielded

ResolutionSpec == ResolutionInit /\ [][ResolutionNext]_vars

\* ============================================================= ThreadsSpec
\* Several threads calling modify_request and modify_response on one
\* RateLimitInterceptor, on the variable limiter.  A thread may be
\* preempted between any two bytecodes: an augmented assignment to an
\* attribute outside the lock is a load and a later store.  Every wait_time
\* is taken as one unit; the rate starts at 10 with adaptive_increase 0.10.

MaxThreads == 2
MaxThreadCalls == 3

Threads == 1..MaxThreads

ThreadsInit ==
    /\ DriverInit
    /\ cfg = [driver |-> "sync", num_workers |-> 1,
              on_transient_exception |-> FALSE, on_structural_error |-> FALSE]
    /\ limiter = [pc |-> "threads",
                  _lock |-> 0,
                  current_rate |-> Fraction(10, 1),
                  bucket_limit |-> 10,
                  total_requests |-> 0,
                  total_wait_time |-> 0,
                  adaptive_reductions |-> 0,
                  tpc |-> [t \in Threads |-> "idle"],
                  loaded |-> [t \in Threads |-> 0],
                  calls |-> 0,
                  returned_requests |-> 0,
                  returned_429 |-> 0]
    /\ data_call = Idle
    /\ dedup = Idle
    /\ tree = Idle
    /\ objects = Idle
    /\ lock = Idle
    /\ warc = Idle
    /\ resolution = Idle

ThreadsFrame == UNCHANGED <<drivervars, data_call, dedup, tree, objects, lock, warc, resolution>>

\* A thread enters modify_request, or modify_response with a 429 response
\* (adaptive is on).
ThreadCalls(t) ==
    /\ limiter.pc = "threads"
    /\ limiter.tpc[t] = "idle"
    /\ limiter.calls < MaxThreadCalls
    /\ \E method \in {"modify_request", "_reduce_rate"} :
          limiter' = [limiter EXCEPT !.calls = @ + 1, !.tpc[t] = method]
    /\ ThreadsFrame

\* with self._lock: entered when no thread holds the lock.
ThreadAcquires(t) ==
    /\ limiter.pc = "threads"
    /\ limiter.tpc[t] \in {"modify_request", "_reduce_rate"}
    /\ limiter._lock = 0
    /\ limiter' = [limiter EXCEPT
                      !._lock = t,
                      !.tpc[t] = IF @ = "modify_request"
                                 THEN "locked_request" ELSE "locked_reduce"]
    /\ ThreadsFrame

\* modify_request under the lock: try_acquire, total_requests += 1; the
\* lock is released on leaving the block.
ThreadCountsRequest(t) ==
    /\ limiter.pc = "threads"
    /\ limiter.tpc[t] = "locked_request"
    /\ limiter' = [limiter EXCEPT !.total_requests = @ + 1,
                                  !._lock = 0,
                                  !.tpc[t] = "load_wait_time"]
    /\ ThreadsFrame

\* self.total_wait_time += wait_time, after the block: the load.
ThreadLoadsWaitTime(t) ==
    /\ limiter.pc = "threads"
    /\ limiter.tpc[t] = "load_wait_time"
    /\ limiter' = [limiter EXCEPT !.loaded[t] = limiter.total_wait_time,
                                  !.tpc[t] = "store_wait_time"]
    /\ ThreadsFrame

\* self.total_wait_time += wait_time: the store; modify_request returns.
ThreadStoresWaitTime(t) ==
    /\ limiter.pc = "threads"
    /\ limiter.tpc[t] = "store_wait_time"
    /\ limiter' = [limiter EXCEPT !.total_wait_time = limiter.loaded[t] + 1,
                                  !.loaded[t] = 0,
                                  !.returned_requests = @ + 1,
                                  !.tpc[t] = "idle"]
    /\ ThreadsFrame

\* _reduce_rate under the lock: current_rate, the limiter and
\* adaptive_reductions; modify_response returns.
ThreadReducesRate(t) ==
    /\ limiter.pc = "threads"
    /\ limiter.tpc[t] = "locked_reduce"
    /\ LET rate == ReducedRate(limiter.current_rate, <<1, 10>>)
       IN  limiter' = [limiter EXCEPT !.current_rate = rate,
                                      !.bucket_limit = IntOf(rate),
                                      !.adaptive_reductions = @ + 1,
                                      !.returned_429 = @ + 1,
                                      !._lock = 0,
                                      !.tpc[t] = "idle"]
    /\ ThreadsFrame

ThreadsNext ==
    \/ \E t \in Threads : ThreadCalls(t)
    \/ \E t \in Threads : ThreadAcquires(t)
    \/ \E t \in Threads : ThreadCountsRequest(t)
    \/ \E t \in Threads : ThreadLoadsWaitTime(t)
    \/ \E t \in Threads : ThreadStoresWaitTime(t)
    \/ \E t \in Threads : ThreadReducesRate(t)

ThreadsSpec == ThreadsInit /\ [][ThreadsNext]_vars

\* ================================================================ properties
\* Calls recorded for the request a worker is resolving.
Calls(c) == [p \in 1..Len(c) |-> <<c[p].op, c[p].i>>]
IsPrefix(s, t) == Len(s) <= Len(t) /\ \A p \in 1..Len(s) : s[p] = t[p]
N == Len(interceptors)

\* Positions of the chain at which modify_request answered with a response.
ShortCircuits(c) ==
    {p \in 1..Len(c) : c[p].op = "modify_request" /\ c[p].ret = "Response"}

\* modify_request of I1..In, the transport, modify_response of In..I1.
FullCalls ==
    [p \in 1..(2 * N + 1) |->
        IF p <= N THEN <<"modify_request", interceptors[p]>>
        ELSE IF p = N + 1 THEN <<"send", 0>>
        ELSE <<"modify_response", interceptors[2 * N + 2 - p]>>]

\* modify_response of In..I1.
ResponseCalls == [p \in 1..N |-> <<"modify_response", interceptors[N + 1 - p]>>]

TimesCalled(c, op, i) == Cardinality({p \in 1..Len(c) : c[p].op = op /\ c[p].i = i})

\* --------------------------------------------------------------------- C1
\* C1: whenever a driver pops a request from its queue, the popped request
\* has the smallest (priority, counter) of all queued ones: no request left
\* in the queue has a lower priority number, and none with the same priority
\* number was pushed earlier.  Holds for the heap of the SyncDriver and for
\* the PriorityQueue of the AsyncDriver.
C1_PopOrder ==
    [][\A w \in Workers :
          (wpc[w] \in {"loop", "get"} /\ wpc'[w] = "modify_request") =>
              \A f \in request_queue' :
                  \/ wreq'[w].priority < f.request.priority
                  \/ /\ wreq'[w].priority = f.request.priority
                     /\ wreq'[w].id < f.request.id]_vars

\* A request was popped ahead of one pushed before it, because its priority
\* number is lower.
C1_Witness ==
    \E w \in Workers :
        /\ cfg.num_workers = 1
        /\ wpc[w] = "modify_request"
        /\ chain[w] = << >>
        /\ \E f \in request_queue :
              f.request.id < wreq[w].id /\ wreq[w].priority < f.request.priority

\* --------------------------------------------------------------------- C2
\* C2: for a request that no interceptor short-circuits, resolve_request
\* calls modify_request of I1, ..., In in list order, then sends the request
\* through the transport, then calls modify_response of In, ..., I1 in
\* reverse list order, and returns only after the whole sequence.
C2_FullChain ==
    \A w \in Workers :
        ShortCircuits(chain[w]) = {} =>
            /\ IsPrefix(Calls(chain[w]), FullCalls)
            /\ wpc[w] = "resolved" => Calls(chain[w]) = FullCalls

\* resolve_request has returned for a request that went through the transport.
C2_Witness ==
    \E w \in Workers :
        /\ wpc[w] = "resolved"
        /\ ShortCircuits(chain[w]) = {}
        /\ Len(chain[w]) = 2 * N + 1

\* --------------------------------------------------------------------- C3
\* C3: once modify_request of interceptor Ik has returned a response, the
\* transport is not called for that request and modify_request of no later
\* interceptor I(k+1), ..., In is called.
C3_ShortCircuitSkips ==
    \A w \in Workers :
        \A p \in ShortCircuits(chain[w]) :
            \A q \in (p + 1)..Len(chain[w]) :
                chain[w][q].op \notin {"send", "modify_request"}

\* resolve_request has returned for a request the first interceptor answered,
\* with interceptors after it in the list.
C3_Witness ==
    \E w \in Workers :
        /\ wpc[w] = "resolved"
        /\ 1 \in ShortCircuits(chain[w])
        /\ N > 1

\* --------------------------------------------------------------------- C4
\* C4: when interceptor Ik short-circuits, modify_response of every
\* interceptor of the list, In down to I1, is called exactly once in reverse
\* list order, including the interceptors after Ik whose modify_request was
\* never called.
C4_ShortCircuitUnwind ==
    \A w \in Workers :
        \A p \in ShortCircuits(chain[w]) :
            LET rest == SubSeq(chain[w], p + 1, Len(chain[w])) IN
                /\ IsPrefix(Calls(rest), ResponseCalls)
                /\ wpc[w] = "resolved" => Calls(rest) = ResponseCalls

\* resolve_request has returned for a request that an interceptor other than
\* the last one answered, so some modify_request calls were skipped.
C4_Witness ==
    \E w \in Workers :
        /\ wpc[w] = "resolved"
        /\ ShortCircuits(chain[w]) # {}
        /\ TimesCalled(chain[w], "modify_request", interceptors[N]) = 0
        /\ TimesCalled(chain[w], "modify_response", interceptors[N]) = 1

DriverActs ==
    <<created, wpc, wyield, chain, job, status>>' #
        <<created, wpc, wyield, chain, job, status>>

\* C6: in one run on_run_start is called exactly once, before get_entry and
\* before anything else the driver does, and on_run_complete is called
\* exactly once, after everything else, also when the run ends by an
\* exception.
C6_Lifecycle ==
    /\ [](run_start_calls <= 1 /\ run_complete_calls <= 1)
    /\ [](rpc = "done" => run_start_calls = 1 /\ run_complete_calls = 1)
    /\ [][DriverActs => run_start_calls = 1 /\ run_complete_calls = 0]_vars

\* A run that fetched requests and ended by an exception has called
\* on_run_complete.
C6_Witness ==
    /\ rpc = "done"
    /\ complete_args[1] = "error"
    /\ created >= 2
    /\ run_complete_calls = 1

\* --------------------------------------------------------------------- C7
\* C7: when an exception that no handler absorbs leaves the processing of a
\* request, the run ends with on_run_complete called with status "error" and
\* that exception, in the SyncDriver and in the AsyncDriver.
C7_ErrorReported ==
    (rpc = "done" /\ \E w \in Workers : wpc[w] = "failed") =>
        /\ complete_args[1] = "error"
        /\ \E w \in Workers : wpc[w] = "failed" /\ complete_args[2] = wexc[w]

\* --------------------------------------------------------------------- C8
\* on_transient_exception has answered for the request the worker holds.
TransientHandled(w) ==
    wpc[w] = "handled" /\ job[w].handler = "on_transient_exception"

\* C8: when resolving a request raises a TransientException and
\* on_transient_exception is set, the callback is called exactly once with
\* that exception and the continuation of the request is not invoked; if it
\* answers true the worker goes back to the loop for the next queued request,
\* if it answers false the worker stops (and never pops again); when the
\* callback is not set the exception propagates out of the worker.
C8_TransientHandling ==
    /\ [](\A w \in Workers :
            TransientHandled(w) =>
                /\ job[w].handler_calls = 1
                /\ job[w].handler_arg = job[w].raised
                /\ IsInstance(job[w].raised, "TransientException")
                /\ job[w].continuation_calls = 0)
    /\ [][\A w \in Workers :
            (/\ wpc[w] = "resolve_raised"
             /\ IsInstance(wexc[w], "TransientException")
             /\ wpc'[w] # "resolve_raised") =>
                IF cfg.on_transient_exception
                THEN /\ wpc'[w] = "handled"
                     /\ job'[w].handler = "on_transient_exception"
                     /\ job'[w].handler_arg = wexc[w]
                ELSE /\ wpc'[w] = "failed"
                     /\ wexc'[w] = wexc[w]
                     /\ ~Async => (rpc' = "finally" /\ status' = "error"
                                   /\ error' = wexc[w])]_vars
    /\ [][\A w \in Workers :
            (TransientHandled(w) /\ wpc'[w] # "handled") =>
                IF job[w].handler_result = "true"
                THEN wpc'[w] = "loop" /\ request_queue' = request_queue
                ELSE wpc'[w] = "done" /\ (~Async => rpc' = "finally")]_vars
    /\ [][\A w \in Workers :
            wpc[w] \in {"done", "failed"} => wpc'[w] = wpc[w]]_vars

\* on_transient_exception answered true while another request is queued.
C8_Witness ==
    \E w \in Workers :
        /\ TransientHandled(w)
        /\ job[w].handler_result = "true"
        /\ request_queue # {}

\* --------------------------------------------------------------------- C9
\* on_structural_error has answered for an HTMLStructuralAssumptionException.
StructuralHandled(w) ==
    /\ wpc[w] = "handled"
    /\ job[w].handler = "on_structural_error"
    /\ job[w].raised = "HTMLStructuralAssumptionException"

C10_AllAssumptionsCaught ==
    [][\A w \in Workers :
          (/\ wpc[w] = "continuation_raised"
           /\ IsInstance(wexc[w], "ScraperAssumptionException")
           /\ cfg.on_structural_error
           /\ wpc'[w] # "continuation_raised") =>
              /\ wpc'[w] = "handled"
              /\ job'[w].handler = "on_structural_error"
              /\ job'[w].handler_arg = wexc[w]]_vars

\* -------------------------------------------------------------------- C11
\* C11: with on_data set, every yielded ParsedData that carries a deferred
\* validation is validated exactly once and exactly one of these happens:
\* on_data is called once with the validated value (validation succeeded),
\* on_invalid_data is called once (validation failed, callback set), or
\* DataFormatAssumptionException is raised (failed, callback unset); on_data
\* and on_invalid_data are never both called for one yield.  A plain value
\* goes to on_data exactly once.
C11_DataRouting ==
    (data_call.yields > 0 /\ data_call.on_data) =>
        LET d == data_call.data
            r == data_call.result
            succeeded == /\ d.valid
                         /\ r.on_data_calls = 1
                         /\ r.on_data_arg = Validated(d.raw)
                         /\ r.on_invalid_data_calls = 0
            rejected == /\ ~d.valid /\ data_call.on_invalid_data
                        /\ r.on_invalid_data_calls = 1
                        /\ r.on_data_calls = 0
                        /\ r.raised = NoExc
            raised == /\ ~d.valid /\ ~data_call.on_invalid_data
                      /\ r.raised = "DataFormatAssumptionException"
                      /\ r.on_data_calls = 0
                      /\ r.on_invalid_data_calls = 0
        IN  IF d.deferred
            THEN /\ r.confirm_calls = 1
                 /\ succeeded \/ rejected \/ raised
                 /\ ~(r.on_data_calls > 0 /\ r.on_invalid_data_calls > 0)
            ELSE /\ r.confirm_calls = 0
                 /\ r.on_data_calls = 1
                 /\ r.on_data_arg = <<"plain", d.raw>>
                 /\ r.on_invalid_data_calls = 0

\* -------------------------------------------------------------------- C12
\* C12: when a deferred value fails validation and on_invalid_data is not
\* set, the DataFormatAssumptionException leaves the loop: it is given to no
\* other callback, on_structural_error in particular, the worker does not go
\* on with the next request, and the SyncDriver's run() ends with it.
C12_ValidationFailurePropagates ==
    [][\A w \in Workers :
          (/\ wpc[w] = "continuation_raised"
           /\ job[w].raised_in = "validation"
           /\ wpc'[w] # "continuation_raised") =>
              /\ wpc'[w] = "failed"
              /\ job'[w].handler = "none"
              /\ wexc'[w] = "DataFormatAssumptionException"
              /\ ~Async => (rpc' = "finally" /\ status' = "error"
                            /\ error' = "DataFormatAssumptionException")]_vars

\* -------------------------------------------------------------------- C13
\* C13: a call of enqueue_request pushes the request with the current
\* counter and increments the counter, unless the key is a string, a
\* duplicate_check is configured and it answers false for the key: then
\* queue and counter are unchanged.  duplicate_check is not called for a
\* SkipDeduplicationCheck key, and without a duplicate_check every request
\* is pushed.
C13_EnqueueStep ==
    (dedup.pc = "running" /\ dedup'.pc = "running" /\ dedup' # dedup) =>
        LET request == dedup'.yielded[Len(dedup'.yielded)]
            key == request.deduplication_key
            rejected == /\ IsStr(key)
                        /\ dedup.duplicate_check
                        /\ dedup'.check_calls = Append(dedup.check_calls, key)
                        /\ ~dedup'.answers[Len(dedup'.answers)]
        IN  /\ IF rejected
               THEN /\ dedup'.queue = dedup.queue
                    /\ dedup'.counter = dedup.counter
               ELSE /\ dedup'.queue =
                          Append(dedup.queue,
                                 <<request.priority, dedup.counter, request>>)
                    /\ dedup'.counter = dedup.counter + 1
            /\ key = SkipDeduplicationCheck =>
                  dedup'.check_calls = dedup.check_calls
            /\ ~dedup.duplicate_check =>
                  /\ dedup'.check_calls = dedup.check_calls
                  /\ Len(dedup'.queue) = Len(dedup.queue) + 1

C13_EnqueueOrDrop == [][C13_EnqueueStep]_vars

\* A request was dropped by duplicate_check and a later one with the Skip
\* sentinel was pushed without asking it.
C13_Witness ==
    /\ dedup.pc = "running"
    /\ dedup.duplicate_check
    /\ Len(dedup.yielded) = 2
    /\ IsStr(dedup.yielded[1].deduplication_key)
    /\ ~dedup.answers[1]
    /\ dedup.yielded[2].deduplication_key = SkipDeduplicationCheck
    /\ Len(dedup.check_calls) = 1
    /\ Len(dedup.queue) = 1
    /\ dedup.counter = 1

\* -------------------------------------------------------------------- C14
\* C14: for two requests with a default key, the keys are equal exactly
\* when method, url, params, data and json are all equal.
C14_KeyDeterminesRequest ==
    dedup.pc = "running" =>
        \A i, j \in 1..Len(dedup.yielded) :
            LET r1 == dedup.yielded[i]
                r2 == dedup.yielded[j]
            IN  (r1.key_argument = <<"None">> /\ r2.key_argument = <<"None">>)
                => ((r1.deduplication_key = r2.deduplication_key)
                    <=> (r1.request = r2.request))

\* ------------------------------------------------------- request chains
\* The node whose continuation yielded node k.
Parent(k) == tree.nodes[tree.nodes[k].yielded_by]

Yielded(k) == tree.pc = "running" /\ k \in DOMAIN tree.nodes
              /\ tree.nodes[k].yielded_by # 0

RECURSIVE Ancestors(_)
Ancestors(k) ==
    IF tree.nodes[k].yielded_by = 0 THEN {}
    ELSE {tree.nodes[k].yielded_by} \cup Ancestors(tree.nodes[k].yielded_by)

\* -------------------------------------------------------------------- C15
\* C15: every request on the queue, the entry request and each request
\* enqueue_request resolved, has an absolute http_params.url.
C15_QueuedUrlAbsolute ==
    tree.pc = "running" =>
        \A k \in DOMAIN tree.nodes : tree.nodes[k].request.url.abs

\* -------------------------------------------------------------------- C16
\* C16: a request of any kind yielded by the continuation run on the
\* response of a NavigatingRequest has its url resolved against the url of
\* that response.  Stated for a NavigatingRequest that itself has a
\* current_location, which leaves the entry request aside.
C16_ResolvedAgainstResponse ==
    \A k \in 1..MaxNodes :
        (/\ Yielded(k)
         /\ Parent(k).request.kind = "NavigatingRequest"
         /\ Parent(k).request.current_location # EmptyUrl) =>
            tree.nodes[k].request.url =
                resolve_url(tree.nodes[k].yielded.url, Parent(k).response.url)

\* -------------------------------------------------------------------- C17
\* C17: a request of any kind yielded by the continuation run on the
\* response of a NonNavigatingRequest or ArchiveRequest has its url resolved
\* against the current_location that side-call carries.  Stated for a
\* side-call whose current_location is not empty.
C17_SideCallKeepsLocation ==
    \A k \in 1..MaxNodes :
        (/\ Yielded(k)
         /\ Parent(k).request.kind # "NavigatingRequest"
         /\ Parent(k).request.current_location # EmptyUrl) =>
            tree.nodes[k].request.url =
                resolve_url(tree.nodes[k].yielded.url,
                            Parent(k).request.current_location)

\* -------------------------------------------------------------------- C18
\* Some request nearer than a on the way down to n was yielded with a
\* permanent that defines the name itself.
Overridden(a, n, part, name) ==
    \E m \in (Ancestors(n) \cup {n}) :
        /\ a \in Ancestors(m)
        /\ name \in DOMAIN PermanentPart(tree.nodes[m].yielded.permanent, part)

\* C18: a header or cookie in the permanent of a request is in the headers
\* or cookies of every descendant with the same value, unless a request in
\* between, or the descendant, was yielded with a permanent that defines
\* that name.
C18_PermanentReachesDescendants ==
    tree.pc = "running" =>
        \A n \in DOMAIN tree.nodes : \A a \in Ancestors(n) :
            \A part \in {"headers", "cookies"} :
                LET set == PermanentPart(tree.nodes[a].request.permanent, part)
                IN  \A name \in DOMAIN set :
                        \/ Overridden(a, n, part, name)
                        \/ /\ name \in DOMAIN tree.nodes[n].request[part]
                           /\ tree.nodes[n].request[part][name] = set[name]

\* -------------------------------------------------------------------- C19
\* C19: a mutation made through one request's accumulated_data, aux_data or
\* permanent, or through the source mapping, at any depth, leaves the deep
\* value of every field of every other request as it was.
C19_MutationStep ==
    (/\ objects.pc = "running" /\ objects'.pc = "running"
     /\ objects'.mutations = objects.mutations + 1) =>
        \A i \in DOMAIN objects.requests : \A f \in Fields :
            <<"request", i, f>> # objects'.via =>
                DeepValue(objects'.heap, objects'.requests[i][f]) =
                    DeepValue(objects.heap, objects.requests[i][f])

C19_CopiesIndependent == [][C19_MutationStep]_vars

\* Two siblings and the resolved copy of the first exist, and the nested
\* dict of the first sibling's mapping was changed: the sibling and the
\* copy still hold the old value.
C19_Witness ==
    /\ objects.pc = "running"
    /\ Len(objects.requests) = 3
    /\ objects.requests[3].resolved_from = 1
    /\ objects.via = <<"request", 1, "accumulated_data">>
    /\ objects.cell # objects.requests[1].accumulated_data
    /\ DeepValue(objects.heap, objects.requests[1].accumulated_data)
          # DeepValue(objects.heap, objects.requests[2].accumulated_data)
    /\ DeepValue(objects.heap, objects.requests[2].accumulated_data)
          = DeepValue(objects.heap, objects.requests[3].accumulated_data)

\* -------------------------------------------------------------------- C20
\* C20: the request of a response is the popped request or the request
\* modify_request returned for it.
C20_ResponseRequestIdentity ==
    tree.pc = "running" =>
        \A k \in DOMAIN tree.nodes :
            tree.nodes[k].response.source # "none" =>
                tree.nodes[k].response.request.id \in
                    {tree.nodes[k].request.id, tree.nodes[k].response.dispatched}

\* -------------------------------------------------------------------- C21
\* Positions at which the body of the loop has come to an end for the
\* request held: the generator is exhausted, an error callback has
\* answered, or an exception leaves the body.
BodyEnds == {"continuation", "handled", "resolve_raised", "continuation_raised"}

\* C21: in the SyncDriver, once stop_event is set no request is popped; the
\* request being processed is let go only where its loop body ends; at the
\* top of the loop run() leaves the queue as it is and goes to
\* on_run_complete with status "completed".
C21_SyncStopStep ==
    (~Async /\ stop_event) =>
        /\ wreq'[1] = wreq[1] \/ wreq'[1] = NoRequest
        /\ (wreq[1] # NoRequest /\ wreq'[1] = NoRequest) => wpc[1] \in BodyEnds
        /\ (wpc[1] = "loop" /\ wpc'[1] # "loop") =>
              /\ wpc'[1] = "done"
              /\ rpc' = "finally"
              /\ status' = "completed"
              /\ request_queue' = request_queue
        /\ (rpc = "finally" /\ rpc' = "done") => complete_args' = <<status, error>>

C21_SyncShutdown == [][C21_SyncStopStep]_vars

\* A continuation has run and yielded, the stop event is set, and run() has
\* returned with status "completed" while requests are still queued.
C21_Witness ==
    /\ ~Async
    /\ stop_event
    /\ created >= 2
    /\ request_queue # {}
    /\ rpc = "done"
    /\ complete_args = <<"completed", NoExc>>

\* -------------------------------------------------------------------- C22
\* C22: in the AsyncDriver a worker that holds a request lets go of it only
\* where its loop body ends; a stop never makes it drop the request at the
\* await it is suspended in (an interceptor, the HTTP call, on_archive, or
\* a callback between two yields).
C22_AsyncStopStep ==
    \A w \in Workers :
        (Async /\ stop_event /\ wreq[w] # NoRequest /\ wreq'[w] = NoRequest) =>
            /\ wpc[w] \in BodyEnds
            /\ ~(wcancel[w] /\ wpc[w] \in Suspended)

C22_AsyncShutdown == [][C22_AsyncStopStep]_vars

\* -------------------------------------------------------------------- C23
\* C23: a run of the AsyncDriver in which the stop event is never set
\* eventually returns.
C23_AsyncRunReturns == <>(~Async \/ stop_event \/ rpc = "done")

\* -------------------------------------------------------------------- C24
\* Workers that have taken a request from the queue and not yet marked it
\* done.
InFlight == {w \in Workers : wreq[w] # NoRequest}

\* C24: in the AsyncDriver the queue's count of unfinished tasks is the
\* number of queued entries plus the number of requests in flight: every
\* entry removed from the queue is marked done once, on every path.
C24_TaskAccounting ==
    Async => unfinished_tasks = Cardinality(request_queue) + Cardinality(InFlight)

\* After a stop: the queue was drained, a worker was cancelled inside
\* resolve_request, every worker has ended and nothing is left unfinished.
C24_Witness ==
    /\ Async
    /\ stop_event
    /\ rpc = "gather"
    /\ created >= 2
    /\ failed
    /\ \E w \in Workers : wcancel[w] /\ wpc[w] = "done"
    /\ \A w \in Workers : wpc[w] \in Finished /\ wexc[w] = NoExc
    /\ unfinished_tasks = 0

\* -------------------------------------------------------------------- C27
\* Requests yielded by the same continuation invocation.
Siblings(r1, r2) == r1.parent = r2.parent /\ r1.id # r2.id

\* The queued requests of one invocation carry counters in yield order.
SiblingCounters ==
    \A e, f \in request_queue :
        (Siblings(e.request, f.request) /\ e.request.id < f.request.id) =>
            e.counter < f.counter

\* C27: the items of one continuation invocation are handled one after the
\* other in the order they are yielded: the requests it enqueues get
\* increasing counters in yield order, and of two siblings with the same
\* priority the one yielded first is popped first.
C27_YieldOrderStep ==
    /\ SiblingCounters'
    /\ \A w \in Workers :
          (wreq[w] = NoRequest /\ wreq'[w] # NoRequest) =>
              \A f \in request_queue' :
                  (Siblings(f.request, wreq'[w])
                   /\ f.request.priority = wreq'[w].priority) =>
                      wreq'[w].id < f.request.id

C27_YieldOrder == [][C27_YieldOrderStep]_vars

\* The first of two same-priority siblings has been popped while the second,
\* yielded after it with the next counter, is still queued.
C27_Witness ==
    \E w \in Workers : \E f \in request_queue :
        /\ wreq[w] # NoRequest
        /\ Siblings(f.request, wreq[w])
        /\ f.request.priority = wreq[w].priority
        /\ wreq[w].id < f.request.id

\* -------------------------------------------------------------------- C28
\* C28: in the AsyncDriver no worker holds a request that was yielded by a
\* continuation another worker is still iterating.
C28_IterationAtomic ==
    Async =>
        \A w, v \in Workers :
            (w # v /\ wreq[w] # NoRequest /\ wreq[v] # NoRequest
             /\ wreq[v].parent = wreq[w].id) =>
                wpc[w] # "continuation"

\* -------------------------------------------------------------------- C29
\* C29: the counters of the entries pushed in a run of the AsyncDriver are
\* strictly increasing in push order, starting with 0 for the entry
\* request, however the workers interleave inside enqueue_request.
C29_CountersIncrease ==
    lock.pc = "running" =>
        /\ lock.pushed[1] = 0
        /\ \A i, j \in DOMAIN lock.pushed :
              i < j => lock.pushed[i] < lock.pushed[j]

\* Two workers were inside enqueue_request at the same time, one of them
\* waiting for the lock, and both have pushed.
C29_Witness ==
    /\ lock.pc = "running"
    /\ Len(lock.pushed) >= 3
    /\ lock.locked
    /\ \E w, v \in Workers :
          lock.epc[w] = "increment" /\ lock.epc[v] = "acquire"

\* -------------------------------------------------------------------- C30
\* C30: without a stop signal, once AsyncDriver.run() has left its join
\* wait (and so when it returns) no request is queued and no worker holds
\* a request.
C30_ReturnsWhenDrained ==
    (Async /\ ~stop_event /\ rpc \in {"gather", "finally", "done"}) =>
        /\ request_queue = {}
        /\ InFlight = {}

\* An async run without a stop signal has returned after its workers
\* processed the entry request and a request it yielded.
C30_Witness ==
    /\ Async
    /\ ~stop_event
    /\ rpc = "done"
    /\ created >= 2
    /\ \A w \in Workers : wpc[w] \in Finished
    /\ complete_args = <<"completed", NoExc>>

\* -------------------------------------------------------------------- C25
\* C25: every request whose response was recorded in run A is a cache hit
\* in the replay, whatever its method and whether or not it has a body.
C25_RecordedIsHit ==
    warc.pc = "replay" =>
        \A i \in DOMAIN warc.replayed : warc.replayed[i].hit

\* -------------------------------------------------------------------- C26
\* C26: with adaptive on, adaptive_reductions is the number of
\* modify_response calls with status 429; with adaptive off, current_rate
\* and adaptive_reductions keep their initial values; total_requests is the
\* number of modify_request calls.
C26_LimiterCounters ==
    limiter.pc = "running" =>
        /\ limiter.total_requests = limiter.request_calls
        /\ limiter.adaptive => limiter.adaptive_reductions = limiter.calls_429
        /\ ~limiter.adaptive =>
              /\ limiter.adaptive_reductions = 0
              /\ limiter.current_rate = limiter.initial_rate

\* What holds of current_rate and total_requests: the rate never increases
\* and strictly decreases at each 429 with adaptive on, it stays at its
\* initial value with adaptive off, and total_requests counts the
\* modify_request calls.
LimiterRateStep ==
    limiter.pc = "running" =>
        /\ ~FractionLess(limiter.current_rate, limiter'.current_rate)
        /\ (limiter.adaptive /\ limiter'.calls_429 > limiter.calls_429) =>
              FractionLess(limiter'.current_rate, limiter.current_rate)
        /\ limiter'.total_requests = limiter'.request_calls
        /\ ~limiter.adaptive => limiter'.current_rate = limiter.initial_rate
LimiterRateDecreases == [][LimiterRateStep]_vars

\* -------------------------------------------------------------------- C31
\* C31: the previous_requests of a queued request is the previous_requests
\* of the request whose continuation yielded it, followed by that request.
C31_ChainExtendsParent ==
    tree.pc = "running" =>
        \A k \in DOMAIN tree.nodes :
            tree.nodes[k].yielded_by # 0 =>
                LET p == tree.nodes[tree.nodes[k].yielded_by].request
                IN  tree.nodes[k].request.previous_requests =
                        Append(p.previous_requests, p.id)

\* -------------------------------------------------------------------- C32
\* C32: resolve_from leaves every field of the yielded request other than
\* the url, current_location, previous_requests and permanent as it was:
\* continuation, priority, deduplication_key, accumulated_data, aux_data,
\* expected_type, and the HTTP parameters method, headers, data, params,
\* json and cookies.
C32_ResolveFrame ==
    resolution.pc = "queued" =>
        LET item == resolution.item
            r == resolution.resolved_request
        IN  /\ r.continuation = item.continuation
            /\ r.priority = item.priority
            /\ r.deduplication_key = item.deduplication_key
            /\ r.accumulated_data = item.accumulated_data
            /\ r.aux_data = item.aux_data
            /\ r.expected_type = item.expected_type
            /\ r.request.method = item.request.method
            /\ r.request.headers = item.request.headers
            /\ r.request.data = item.request.data
            /\ r.request.params = item.request.params
            /\ r.request.json = item.request.json
            /\ r.request.cookies = item.request.cookies

\* -------------------------------------------------------------------- C33
\* C33: concurrent calls lose no update of the RateLimitInterceptor's
\* state: when no call is in progress, total_requests and total_wait_time
\* account for every modify_request call that returned and
\* adaptive_reductions for every 429 response.
C33_NoLostUpdate ==
    (limiter.pc = "threads" /\ \A t \in Threads : limiter.tpc[t] = "idle") =>
        /\ limiter.total_requests = limiter.returned_requests
        /\ limiter.total_wait_time = limiter.returned_requests
        /\ limiter.adaptive_reductions = limiter.returned_429

\* -------------------------------------------------------------------- C34
\* C34: the rate the limiter enforces (the limit its Rate was built with)
\* equals current_rate and is positive.
C34_EnforcedRateIsCurrentRate ==
    limiter.pc = "running" =>
        /\ limiter.bucket_limit > 0
        /\ limiter.bucket_limit * limiter.current_rate.den =
               limiter.current_rate.num

\* -------------------------------------------------------------------- C35
\* The WarcCaptureInterceptor is the last interceptor of the list; the
\* records it has written for the request worker w holds are its
\* modify_response calls.
CaptureInterceptor == interceptors[NumInterceptors]
WarcRecords(w) == Cardinality({k \in DOMAIN chain[w] : chain[w][k].op = "modify_response" /\ chain[w][k].i = CaptureInterceptor})
TransportResponses(w) == Cardinality({k \in DOMAIN chain[w] : chain[w][k].op = "send" /\ chain[w][k].ret = "Response"})
CaptureShortCircuits(w) == \E k \in DOMAIN chain[w] : chain[w][k].op = "modify_request" /\ chain[w][k].i = CaptureInterceptor /\ chain[w][k].ret = "Response"

\* C35: when resolve_request returns, the capture interceptor has written
\* one record if the response came from the HTTP transport and none if an
\* interceptor short-circuited.
C35_RecordPerTransportResponse ==
    \A w \in Workers :
        (wpc[w] = "resolved" /\ ~CaptureShortCircuits(w)) =>
            WarcRecords(w) = TransportResponses(w)

\* -------------------------------------------------------------------- C36
\* C36: the response replayed for a recorded request has the status_code,
\* url and content of the response recorded for the corresponding fetch,
\* also when the same method and url were recorded more than once.
C36_ReplayRoundTrip ==
    warc.pc = "replay" =>
        \A i \in DOMAIN warc.replayed :
            warc.replayed[i].hit =>
                /\ warc.replayed[i].status_code = warc.recorded[i].response.status_code
                /\ warc.replayed[i].url = warc.recorded[i].response.url
                /\ warc.replayed[i].content = warc.recorded[i].response.content

\* The part of the round trip that holds: the url of a replayed response
\* is the recorded one.
WarcUrlRoundTrip ==
    warc.pc = "replay" =>
        \A i \in DOMAIN warc.replayed :
            warc.replayed[i].hit =>
                warc.replayed[i].url = warc.recorded[i].response.url

\* -------------------------------------------------------------------- C37
\* C37: a transport response with status 500 or more passes through no
\* modify_response and reaches no continuation or callback: resolve_request
\* raises HTMLResponseAssumptionException, and in the SyncDriver the run
\* ends with status "error" and that exception; a 429 response does not
\* raise and goes on through the modify_response chain.
C37_ServerErrorEndsRun ==
    /\ [](\A w \in Workers :
            job[w].status_code >= ServerErrorStatus =>
                /\ job[w].raised = "HTMLResponseAssumptionException"
                /\ \A p \in 1..Len(chain[w]) : chain[w][p].op # "modify_response"
                /\ job[w].continuation_calls = 0
                /\ job[w].handler_calls = 0)
    /\ [][\A w \in Workers :
            (/\ ~Async
             /\ wpc[w] = "resolve_raised"
             /\ wexc[w] = "HTMLResponseAssumptionException"
             /\ wpc'[w] # "resolve_raised") =>
                /\ wpc'[w] = "failed"
                /\ job'[w].handler_calls = 0
                /\ rpc' = "finally"
                /\ status' = "error"
                /\ error' = "HTMLResponseAssumptionException"]_vars
    /\ [][\A w \in Workers :
            (wpc[w] = "send" /\ job'[w].status_code = 429) =>
                /\ wpc'[w] = "modify_response"
                /\ wexc'[w] = NoExc
                /\ job'[w].raised = NoExc]_vars
    /\ [][(rpc = "finally" /\ rpc' = "done" /\ ~Async
           /\ error = "HTMLResponseAssumptionException") =>
              complete_args' = <<"error", "HTMLResponseAssumptionException">>]_vars

\* A SyncDriver run with both error callbacks set has ended with the
\* exception of a 5xx response.
C37_Witness ==
    /\ ~Async
    /\ cfg.on_transient_exception
    /\ cfg.on_structural_error
    /\ rpc = "done"
    /\ complete_args = <<"error", "HTMLResponseAssumptionException">>

\* resolve_request has returned a response with status 429.
Delivered429 ==
    \E w \in Workers : wpc[w] = "resolved" /\ job[w].status_code = 429

\* -------------------------------------------------------------------- C38
\* The exception run() of the SyncDriver exits with, None when it returns:
\* the one that left the loop body, or the one get_entry() raised.
RunRaised ==
    IF wpc[1] = "failed" THEN wexc[1]
    ELSE IF created = 0 /\ rpc \in {"finally", "done"} THEN error
    ELSE NoExc

\* C38: in the SyncDriver on_run_complete receives status "error" and the
\* raised exception if and only if run() exits by raising, and "completed"
\* and None in every other exit.
C38_CompleteArgs ==
    (~Async /\ rpc = "done") =>
        IF RunRaised # NoExc
        THEN complete_args = <<"error", RunRaised>>
        ELSE complete_args = <<"completed", NoExc>>

\* The same for the exits of run() other than by an exception that is not
\* an Exception.
CompleteArgsOfExceptions ==
    (~Async /\ rpc = "done" /\ IsException(RunRaised)) =>
        IF RunRaised # NoExc
        THEN complete_args = <<"error", RunRaised>>
        ELSE complete_args = <<"completed", NoExc>>

\* -------------------------------------------------------------------- C39
\* A request is in one place: no two queue entries and no two workers have
\* the same request, and a request a worker holds is not in the queue.
HeldOnce ==
    /\ \A e, f \in request_queue : e.request.id = f.request.id => e = f
    /\ \A w, v \in Workers :
          (w # v /\ wreq[w] # NoRequest) => wreq[w].id # wreq[v].id
    /\ \A w \in Workers : \A e \in request_queue :
          wreq[w] # NoRequest => e.request.id # wreq[w].id

\* C39: every queued request is popped at most once and by one worker: a
\* request enters the queue only when it is newly built (never again after
\* an error), it leaves the queue only by being handed to one worker that
\* starts resolving it (or by the drain of a stopped async run), and a run
\* that ends with the queue exhausted has handed out every request.
C39_PoppedOnceStep ==
    /\ HeldOnce'
    /\ \A e \in request_queue' \ request_queue :
          e.request.id = created + 1 /\ created' = created + 1
    /\ \A e \in request_queue \ request_queue' :
          \/ \E w \in Workers :
                /\ wreq[w] = NoRequest
                /\ wreq'[w] = e.request
                /\ wpc'[w] = "modify_request"
                /\ \A v \in Workers \ {w} : wreq'[v] = wreq[v]
          \/ Async /\ stop_event /\ rpc = "join" /\ rpc' = "gather"
    /\ \A w \in Workers :
          (wreq[w] = NoRequest /\ wreq'[w] # NoRequest) =>
              \E e \in request_queue \ request_queue' : e.request = wreq'[w]
    /\ (~Async /\ ~stop_event /\ wpc[1] = "loop" /\ wpc'[1] = "done") =>
          request_queue = {}
    /\ (Async /\ ~stop_event /\ rpc = "join" /\ rpc' = "gather") =>
          request_queue = {} /\ InFlight = {}
C39_PoppedOnce == [][C39_PoppedOnceStep]_vars

\* A run has ended with the queue exhausted after a fetch raised a
\* TransientException and on_transient_exception answered true.
C39_Witness ==
    /\ rpc = "done"
    /\ ~stop_event
    /\ cfg.on_transient_exception
    /\ failed
    /\ created = MaxReq
    /\ request_queue = {}
    /\ \A w \in Workers : wpc[w] \in {"off", "done"}
    /\ complete_args = <<"completed", NoExc>>


\* -------------------------------------------------------------------- C40
\* C40: when on_invalid_data is not provided but on_data is, a deferred
\* value whose validation fails is passed to on_data and handle_data leaves
\* without an exception; DataFormatAssumptionException from a failed
\* validation leaves handle_data only when neither callback is provided.
C40_InvalidDataFallsBackToOnData ==
    LET d == data_call.data
        r == data_call.result
        validation_failed == data_call.yields > 0 /\ d.deferred /\ ~d.valid
    IN  /\ (validation_failed /\ data_call.on_data /\ ~data_call.on_invalid_data) =>
               /\ r.on_data_calls = 1
               /\ r.raised = NoExc
        /\ (validation_failed /\ r.raised = "DataFormatAssumptionException") =>
               (~data_call.on_data /\ ~data_call.on_invalid_data)

\* A failed validation leaves handle_data with the exception exactly when
\* on_invalid_data is not provided, whatever on_data is.
InvalidDataRaisesWithoutOnInvalidData ==
    LET d == data_call.data
        r == data_call.result
    IN  (data_call.yields > 0 /\ d.deferred /\ ~d.valid) =>
            /\ r.on_data_calls = 0
            /\ (r.raised = "DataFormatAssumptionException")
                   <=> ~data_call.on_invalid_data

====
